---------------------------- MODULE Spec2Model ----------------------------
(***************************************************************************)
(* Session coordinator (SessionDO) of the control plane: prompt queue,     *)
(* sandbox connection hub, sandbox lifecycle (spawn / restore / snapshot / *)
(* alarm), modelled from                                                   *)
(*   src/packages/control-plane/src/sandbox/lifecycle/manager.ts           *)
(*   src/packages/control-plane/src/sandbox/lifecycle/decisions.ts         *)
(*                                                                         *)
(* Execution model.  A Durable Object runs one handler at a time; a        *)
(* handler runs without interruption up to an await of outbound I/O (the   *)
(* provider's create / restore / snapshot HTTP calls).  Awaited storage    *)
(* operations (setAlarm) keep the object's input gate closed, so no other  *)
(* event is delivered during them.  Each action below is therefore one     *)
(* handler up to its first provider await, or the continuation of a        *)
(* handler after a provider call returned.  The deployment is configured   *)
(* (MODAL_API_SECRET, MODAL_WORKSPACE set).                                 *)
(*                                                                         *)
(* Handlers are written as functions on a state record s (fields = the     *)
(* variables), composed in program order; Commit(s) makes s the next       *)
(* state.                                                                  *)
(***************************************************************************)
EXTENDS Integers, Sequences, FiniteSets, TLC

\* ------------------------------------------------------------ bounds
MaxMsgs == 2        \* prompts enqueued in a run
MaxSockets == 2     \* sandbox sockets accepted in a run
MaxSpawns == 5      \* create / restore attempts that reach the provider
MaxSnaps == 1       \* snapshot calls in flight at once
MaxTicks == 2       \* clock advances in a run
MaxClients == 2     \* client sockets open (or closing) at once
MaxImages == 1      \* distinct snapshot image ids the provider returns
MaxFailures == 4    \* failure counts handed to the circuit breaker decision
MaxClientCount == 2 \* client counts handed to the inactivity decision
MaxUsers == 2       \* user ids requests carry
MaxParticipants == 3 \* rows of the participants table
MaxWsTokens == 2    \* WebSocket tokens issued in a run
MaxPushes == 2      \* create-pr requests in a run
MaxSetSecrets == 2  \* setSecrets calls waiting for the database at once

\* tighter bounds of the scenarios (see the end of the module)
QueueSpawns == 1
QueueTicks == 1
QueueEvents == 2      \* sandbox sockets accepted plus clock advances in a run
ConnSpawns == 2
SnapSockets == 1
SnapSpawns == 2
SnapTicks == 1
SnapMsgs == 1
BreakerSpawns == 4
BreakerClients == 1
AuthSpawns == 1
BroadcastMsgs == 1
BroadcastSpawns == 2
AlarmMsgs == 1
AlarmSockets == 1
AlarmSpawns == 1
AlarmClients == 1
AlarmTicks == 1
PushSockets == 1
PushSpawns == 1
PushTicks == 1
CreatePRRequests == 1
PushMsgs == 1
PushParticipants == 2
ParticipantSpawns == 1
ParticipantMsgs == 1
ParticipantClients == 1
StallSockets == 2
StallSpawns == 2
StallClients == 1
ClientMsgSockets == 1
ClientMsgSpawns == 1
ClientMsgMsgs == 1

\* ------------------------------------------------- program constants
CIRCUIT_BREAKER_THRESHOLD == 3
CIRCUIT_BREAKER_WINDOW_MS == 300000
READY_WAIT_MS == 60000
SPAWN_COOLDOWN_MS == 30000
INACTIVITY_TIMEOUT_MS == 600000
INACTIVITY_EXTENSION_MS == 300000
MIN_CHECK_MS == 30000
HEARTBEAT_TIMEOUT_MS == 90000
WS_AUTH_TIMEOUT_MS == 30000
PUSH_TIMEOUT_MS == 180000
GITHUB_TOKEN_BUFFER_MS == 60000
MAX_KEY_LENGTH == 256
MAX_VALUE_SIZE == 16384
MAX_TOTAL_VALUE_SIZE == 65536
MAX_SECRETS_PER_REPO == 50

\* SQL NULL / JS null.  The code tests the nullable numeric and string
\* columns by truthiness (!lastHeartbeat, created_at || 0, snapshotImageId &&),
\* which does not tell null from 0, so both are this one value.
NULL == 0

\* Date.now() when the session was initialised: far from the epoch, so that
\* now - 0 exceeds every window of the program.
EpochNow == 1000000

\* what `Bearer ${expectedToken}` prints after "Bearer " for a null token; generated
\* tokens are 1, 2, ...; BogusCredential is a string that is no token and not "null".
NullLiteral == -1
BogusCredential == -2
NoHeader == -3

TerminalStatuses == {"stopped", "stale", "failed"}

\* how far the clock moves between two handlers: a spawn cooldown (inside every
\* window of the program; two of them make the ready wait), or an inactivity
\* timeout (beyond every window)
TickSteps == {SPAWN_COOLDOWN_MS, INACTIVITY_TIMEOUT_MS}

VARIABLES
    now,                \* Date.now()
    ticks,              \* clock advances so far (bounds the run)
    sandbox,            \* the sandbox row
    messages,           \* the messages table, in insertion (rowid) order
    sockets,            \* sandbox-tagged WebSockets accepted so far
    clients,            \* the client WebSockets accepted and not yet closed
    sandboxWs,          \* this.sandboxWs: index into sockets, NULL if null
    isSpawningSandbox,  \* this.isSpawningSandbox
    alarmAt,            \* the scheduled alarm, NULL if none
    calls,              \* provider create / restore calls in flight
    snaps,              \* provider snapshot calls in flight
    nextTok,            \* next sandbox auth token generateId() returns
    bcast,              \* broadcasts made by the last handler step
    toSandbox,          \* commands sent on sandbox sockets by the last handler step
    resp,               \* what the last handler step answered / did
    lastStatus,         \* last sandbox_status broadcast so far ("none" if none)
    issued,             \* history: credentials handed to the provider
    prompted,           \* history: the prompts sent and not yet answered, as <<message id, token of the sandbox>>
    env,                \* this.env: which of the Modal bindings are set
    failedRestores,     \* history: the times the restore calls failed since a call succeeded
    participants,       \* the participants table, in insertion (rowid) order
    session,            \* the session row (branch_name)
    artifacts,          \* the artifacts table
    pushes,             \* the create-pr requests, running or answered
    pendingPushResolvers, \* this.pendingPushResolvers: normalized branch -> request
    repo_secrets,       \* RepoSecretsStore: the repo_secrets rows of one repository
    setSecretsCalls,    \* RepoSecretsStore: setSecrets calls waiting for the database
    setSecretsResult,   \* RepoSecretsStore: the last setSecrets call that ended
    d1Queries,          \* RequestMetrics.d1Queries of one request
    d1Pending,          \* instrumented database: calls awaiting the real database
    d1Done,             \* instrumented database: the last call that ended
    decision            \* a call of a decision function: its name, arguments, result

vars == <<now, ticks, sandbox, messages, sockets, clients, sandboxWs, isSpawningSandbox,
          alarmAt, calls, snaps, nextTok, bcast, toSandbox, resp, lastStatus, issued,
          prompted, env, failedRestores, participants, session, artifacts, pushes,
          pendingPushResolvers, repo_secrets, setSecretsCalls, setSecretsResult,
          d1Queries, d1Pending, d1Done, decision>>

\* What a handler step reports: the handler, its HTTP status (0 if none), what
\* spawnSandbox decided in it ("none" if it was not called), the message the queue
\* driver moved to processing (NULL if none) and the socket it concerns (NULL if none).
\* client is the client socket a prompt came on, recovered whether its client
\* info was rebuilt from ws_client_mapping in the step.
NoResp == [op |-> "none", code |-> 0, decision |-> "none", dispatched |-> NULL, ws |-> NULL,
           client |-> NULL, recovered |-> FALSE]

\* The current state as a record, with the per-step outputs emptied.  ok turns
\* FALSE when a handler would exceed a bound of the model; such a step is not taken.
Cur ==
    [now |-> now, ticks |-> ticks, sandbox |-> sandbox, messages |-> messages,
     sockets |-> sockets, clients |-> clients, sandboxWs |-> sandboxWs,
     isSpawningSandbox |-> isSpawningSandbox, alarmAt |-> alarmAt, calls |-> calls,
     snaps |-> snaps, nextTok |-> nextTok, bcast |-> <<>>, toSandbox |-> <<>>,
     resp |-> NoResp, lastStatus |-> lastStatus, issued |-> issued, env |-> env,
     participants |-> participants, session |-> session, artifacts |-> artifacts,
     pushes |-> pushes, pendingPushResolvers |-> pendingPushResolvers, ok |-> TRUE]

\* the state of the secrets store, a component of its own
storeVars == <<repo_secrets, setSecretsCalls, setSecretsResult>>

\* the state of the instrumented database and its metrics, a component of its own
d1Vars == <<d1Queries, d1Pending, d1Done>>

Commit(after) ==
    \E s \in {after} :
    /\ s.ok
    /\ now' = s.now
    /\ ticks' = s.ticks
    /\ sandbox' = s.sandbox
    /\ messages' = s.messages
    /\ sockets' = s.sockets
    /\ clients' = s.clients
    /\ sandboxWs' = s.sandboxWs
    /\ isSpawningSandbox' = s.isSpawningSandbox
    /\ alarmAt' = s.alarmAt
    /\ calls' = s.calls
    /\ snaps' = s.snaps
    /\ nextTok' = s.nextTok
    /\ bcast' = s.bcast
    /\ toSandbox' = s.toSandbox
    /\ resp' = s.resp
    /\ lastStatus' = s.lastStatus
    /\ issued' = s.issued
    /\ prompted' = {p \in prompted \cup {<<s.toSandbox[k].messageId,
                                              s.sockets[s.toSandbox[k].ws].presented>> :
                                              k \in {j \in DOMAIN s.toSandbox :
                                                        s.toSandbox[j].type = "prompt"}} :
                         \E i \in DOMAIN s.messages :
                             s.messages[i].id = p[1] /\ s.messages[i].status = "processing"}
    /\ env' = s.env
    /\ failedRestores' = IF s.resp.op \in {"spawn_return", "restore_return"}
                         THEN IF s.resp.decision = "ok" THEN <<>>
                              ELSE IF s.resp.op = "restore_return"
                              THEN Append(failedRestores, s.now)
                              ELSE failedRestores
                         ELSE failedRestores
    /\ participants' = s.participants
    /\ session' = s.session
    /\ artifacts' = s.artifacts
    /\ pushes' = s.pushes
    /\ pendingPushResolvers' = s.pendingPushResolvers
    /\ UNCHANGED <<storeVars, d1Vars>>
    /\ decision' = decision

\* handleInit: session row, sandbox row (status pending, created_at 0, every
\* other column NULL, spawn_failure_count DEFAULT 0), no messages.
InitSandbox ==
    [status |-> "pending", created_at |-> 0, auth_token |-> NULL,
     modal_sandbox_id |-> NULL, modal_object_id |-> NULL, snapshot_image_id |-> NULL,
     last_heartbeat |-> NULL, last_activity |-> NULL,
     spawn_failure_count |-> 0, last_spawn_failure |-> NULL]

\* participants.github_access_token_encrypted: NULL, a ciphertext made with
\* TOKEN_ENCRYPTION_KEY, or a value decryptToken throws on
Encrypted == 1
Undecryptable == 2

\* handleInit: the owner participant, for the user that created the session; the
\* columns the INSERT does not name are NULL
OwnerParticipant ==
    [user_id |-> 1, ws_auth_token |-> NULL, github_access_token_encrypted |-> Encrypted,
     github_token_expires_at |-> NULL, role |-> "owner"]

\* no decision function is being exercised
NoDecision == [fn |-> "none"]

InitSession ==
    /\ now = EpochNow
    /\ ticks = 0
    /\ sandbox = InitSandbox
    /\ messages = <<>>
    /\ sockets = <<>>
    /\ clients = <<>>
    /\ sandboxWs = NULL
    /\ isSpawningSandbox = FALSE
    /\ alarmAt = NULL
    /\ calls = <<>>
    /\ snaps = <<>>
    /\ nextTok = 1
    /\ bcast = <<>>
    /\ toSandbox = <<>>
    /\ resp = NoResp
    /\ lastStatus = "none"
    /\ issued = {}
    /\ prompted = {}
    /\ env = [MODAL_API_SECRET |-> TRUE, MODAL_WORKSPACE |-> TRUE]
    /\ failedRestores = <<>>
    /\ participants = <<OwnerParticipant>>
    /\ session = [branch_name |-> NULL]
    /\ artifacts = <<>>
    /\ pushes = <<>>
    /\ pendingPushResolvers = {}
    /\ repo_secrets = {}
    /\ setSecretsCalls = <<>>
    /\ setSecretsResult = [outcome |-> "none", keys |-> {}]
    /\ d1Queries = <<>>
    /\ d1Pending = <<>>
    /\ d1Done = [op |-> "none"]

Init ==
    /\ InitSession
    /\ decision = NoDecision

\* ------------------------------------------------------------ helpers

\* sequence s without its i-th element
RemoveAt(s, i) == [j \in 1..(Len(s) - 1) |-> IF j < i THEN s[j] ELSE s[j + 1]]

\* SessionDO.updateSandboxStatus
updateSandboxStatus(s, status) == [s EXCEPT !.sandbox.status = status]

\* SessionDO.broadcast: one message to every client socket.  sandbox_status
\* broadcasts are also remembered in lastStatus.
\* SessionDO.safeSend on a client socket: the message goes out if readyState is
\* OPEN and send does not throw
Recipients(cl) == {i \in DOMAIN cl : cl[i].state = "open" /\ ~cl[i].broken}

\* (mutation) a broadcast that stops at the first socket it cannot send to
broadcast_StopAtFailure(s, type, arg) ==
    [s EXCEPT !.bcast = Append(@, [type |-> type, arg |-> arg,
                                   to |-> {i \in Recipients(s.clients) :
                                             \A j \in 1..i : j \in Recipients(s.clients)}]),
              !.lastStatus = IF type = "sandbox_status" THEN arg ELSE @]

broadcast(s, type, arg) ==
    [s EXCEPT !.bcast = Append(@, [type |-> type, arg |-> arg,
                                   to |-> Recipients(s.clients)]),
              !.lastStatus = IF type = "sandbox_status" THEN arg ELSE @]

\* no event: what a provider call carries when nothing is broadcast after it
NoEvent == [type |-> "none"]

\* the provider calls in flight whose caller broadcasts a sandbox event once
\* the call has returned
Deferred(cs) == {i \in DOMAIN cs : cs[i].cont.type # "none"}

\* SessionDO.processSandboxEvent, its last statement: the event is broadcast.
\* sawLater marks the clients sent this event while the broadcast of an event
\* the object received earlier is still to come; no handler reads it.
broadcastEvent(s, event) ==
    LET s1 == broadcast(s, "sandbox_event", event)
    IN IF Deferred(s.calls) = {} THEN s1
       ELSE [s1 EXCEPT !.clients = [i \in DOMAIN @ |->
                                       IF i \in Recipients(s.clients)
                                       THEN [@[i] EXCEPT !.sawLater = TRUE] ELSE @[i]]]

\* the rest of processSandboxEvent after the provider call it awaited (through
\* processMessageQueue and spawnSandbox) has returned
afterCall(s, cont) ==
    IF cont.type = "none" THEN s
    ELSE LET s1 == broadcast(s, "sandbox_event", cont)
         IN IF Deferred(s.calls) # {} THEN s1
            ELSE [s1 EXCEPT !.clients = [i \in DOMAIN @ |-> [@[i] EXCEPT !.sawLater = FALSE]]]

\* SessionDO.updateLastActivity
updateLastActivity(s, t) == [s EXCEPT !.sandbox.last_activity = t]

\* SessionDO.scheduleInactivityCheck: setAlarm replaces the one alarm
scheduleInactivityCheck(s) == [s EXCEPT !.alarmAt = s.now + INACTIVITY_TIMEOUT_MS]

\* SessionDO.safeSend on a sandbox socket: sends only if readyState is OPEN
safeSend(s, ws, type, messageId) ==
    IF s.sockets[ws].state = "open"
    THEN [s EXCEPT !.toSandbox = Append(@, [type |-> type, messageId |-> messageId, ws |-> ws])]
    ELSE s

\* SessionDO.getSandboxWebSocket: the in-memory reference if it is OPEN, else the
\* first OPEN sandbox-tagged socket of ctx.getWebSockets() whose sid tag does not
\* contradict sandbox.modal_sandbox_id; that socket becomes this.sandboxWs.
\* ctx.getWebSockets() promises no order: ord says from which end the scan finds.
ScanCandidates(s) ==
    {i \in DOMAIN s.sockets :
        /\ s.sockets[i].state = "open"
        /\ \/ s.sandbox.modal_sandbox_id = NULL
           \/ s.sockets[i].sid = NULL
           \/ s.sockets[i].sid = s.sandbox.modal_sandbox_id}

Lowest(S) == CHOOSE i \in S : \A j \in S : i <= j
Highest(S) == CHOOSE i \in S : \A j \in S : i >= j

getSandboxWebSocket(s, ord) ==
    IF s.sandboxWs # NULL /\ s.sockets[s.sandboxWs].state = "open"
    THEN [ws |-> s.sandboxWs, s |-> s]
    ELSE IF ScanCandidates(s) # {}
    THEN LET w == IF ord = "asc" THEN Lowest(ScanCandidates(s)) ELSE Highest(ScanCandidates(s))
         IN [ws |-> w, s |-> [s EXCEPT !.sandboxWs = w]]
    ELSE [ws |-> NULL, s |-> s]

\* (mutation) the UPDATE without its modal_sandbox_id column
PersistForSpawn_NoId(sb, t, tok, id) ==
    [sb EXCEPT !.status = "spawning", !.created_at = t, !.auth_token = tok]

\* The UPDATE both spawnSandbox and restoreFromSnapshot run before calling the
\* provider: status, created_at, auth_token and modal_sandbox_id in one statement.
PersistForSpawn(sb, t, tok, id) ==
    [sb EXCEPT !.status = "spawning", !.created_at = t, !.auth_token = tok,
               !.modal_sandbox_id = id]

\* The provider call leaves the object: it is in flight until it returns.  The
\* history set issued remembers, per token, whether the sandbox row held the
\* call's token and id, status spawning and created_at = now when the call was
\* issued.
IssueCall(s, kind, tok, id, image) ==
    [s EXCEPT
        !.ok = @ /\ tok <= MaxSpawns,
        !.nextTok = tok + 1,
        !.calls = Append(@, [kind |-> kind, tok |-> tok, id |-> id, image |-> image,
                             cont |-> NoEvent]),
        !.issued = @ \cup {[tok |-> tok, id |-> id, kind |-> kind, image |-> image,
                            persisted |-> /\ s.sandbox.auth_token = tok
                                          /\ s.sandbox.modal_sandbox_id = id
                                          /\ s.sandbox.status = "spawning"
                                          /\ s.sandbox.created_at = s.now]}]

\* the check both callers of the Modal API make on this.env
ModalConfigured(s) == s.env.MODAL_API_SECRET /\ s.env.MODAL_WORKSPACE

\* (mutation) a fresh createSandbox call where the restore call belongs
restoreFromSnapshot_AsCreate(s, snapshotImageId) ==
    LET s1 == broadcast(updateSandboxStatus(s, "spawning"), "sandbox_status", "spawning")
        tok == s1.nextTok
        id == s1.now
        s2 == [s1 EXCEPT !.sandbox = PersistForSpawn(@, s1.now, tok, id)]
    IN IssueCall(s2, "create", tok, id, NULL)

\* SessionDO.restoreFromSnapshot up to the awaited fetch of the restore endpoint.
\* Without the Modal bindings no call is made and the status becomes failed.
restoreFromSnapshot(s, snapshotImageId) ==
    LET s1 == broadcast(updateSandboxStatus(s, "spawning"), "sandbox_status", "spawning")
        tok == s1.nextTok
        id == s1.now
        s2 == [s1 EXCEPT !.sandbox = PersistForSpawn(@, s1.now, tok, id)]
    IN IF ModalConfigured(s)
       THEN IssueCall(s2, "restore", tok, id, snapshotImageId)
       ELSE broadcast(updateSandboxStatus([s2 EXCEPT !.ok = @ /\ tok <= MaxSpawns,
                                                     !.nextTok = tok + 1], "failed"),
                      "sandbox_error", [disabled |-> FALSE, failures |-> 0, waitSeconds |-> 0])

\* SessionDO.enforceCircuitBreaker: [proceed, s].  The wait hint of the error is
\* Math.ceil((window - timeSinceLastFailure) / 1000) seconds.
CeilDiv(a, b) == (a + b - 1) \div b

\* (mutation) the breaker opens one failure late: > for >=
enforceCircuitBreaker_Late(s, spawnFailureCount, lastSpawnFailure) ==
    LET timeSinceLastFailure == s.now - lastSpawnFailure IN
    IF /\ spawnFailureCount > CIRCUIT_BREAKER_THRESHOLD
       /\ timeSinceLastFailure < CIRCUIT_BREAKER_WINDOW_MS
    THEN [proceed |-> FALSE,
          s |-> broadcast(s, "sandbox_error",
                          [disabled |-> TRUE, failures |-> spawnFailureCount,
                           waitSeconds |-> CeilDiv(CIRCUIT_BREAKER_WINDOW_MS - timeSinceLastFailure, 1000)])]
    ELSE IF spawnFailureCount > 0 /\ timeSinceLastFailure >= CIRCUIT_BREAKER_WINDOW_MS
    THEN [proceed |-> TRUE, s |-> [s EXCEPT !.sandbox.spawn_failure_count = 0]]
    ELSE [proceed |-> TRUE, s |-> s]

enforceCircuitBreaker(s, spawnFailureCount, lastSpawnFailure) ==
    LET timeSinceLastFailure == s.now - lastSpawnFailure IN
    IF /\ spawnFailureCount >= CIRCUIT_BREAKER_THRESHOLD
       /\ timeSinceLastFailure < CIRCUIT_BREAKER_WINDOW_MS
    THEN [proceed |-> FALSE,
          s |-> broadcast(s, "sandbox_error",
                          [disabled |-> TRUE, failures |-> spawnFailureCount,
                           waitSeconds |-> CeilDiv(CIRCUIT_BREAKER_WINDOW_MS - timeSinceLastFailure, 1000)])]
    ELSE IF spawnFailureCount > 0 /\ timeSinceLastFailure >= CIRCUIT_BREAKER_WINDOW_MS
    THEN [proceed |-> TRUE, s |-> [s EXCEPT !.sandbox.spawn_failure_count = 0]]
    ELSE [proceed |-> TRUE, s |-> s]

Decide(s, d) == [s EXCEPT !.resp.decision = d]

\* SessionDO.spawnSandbox, its catch and finally blocks when the try block threw
\* before the provider call (a Modal binding is not set)
spawnThrew(s, tok) ==
    LET f1 == [s EXCEPT !.ok = @ /\ tok <= MaxSpawns,
                        !.nextTok = tok + 1,
                        !.sandbox.spawn_failure_count = @ + 1,
                        !.sandbox.last_spawn_failure = s.now]
        f2 == broadcast(updateSandboxStatus(f1, "failed"), "sandbox_error",
                        [disabled |-> FALSE, failures |-> 0, waitSeconds |-> 0])
    IN [f2 EXCEPT !.isSpawningSandbox = FALSE]

\* (mutation) the in-memory flag is looked at first, before the snapshot image
spawnSandbox_FlagFirst(s, ord) ==
    LET currentStatus == s.sandbox.status
        timeSinceLastSpawn == s.now - s.sandbox.created_at
        snapshotImageId == s.sandbox.snapshot_image_id
        cb == enforceCircuitBreaker(s, s.sandbox.spawn_failure_count,
                                    s.sandbox.last_spawn_failure)
        s1 == cb.s
        ws == getSandboxWebSocket(s1, ord)
        tok == s1.nextTok
        id == s1.now
        s2 == [s1 EXCEPT !.isSpawningSandbox = TRUE,
                         !.sandbox = PersistForSpawn(@, s1.now, tok, id)]
        s3 == broadcast(s2, "sandbox_status", "spawning")
    IN
    IF ~cb.proceed THEN Decide(s1, "blocked")
    ELSE IF s1.isSpawningSandbox THEN Decide(s1, "skip")
    ELSE IF snapshotImageId # NULL /\ currentStatus \in TerminalStatuses
    THEN Decide(restoreFromSnapshot(s1, snapshotImageId), "restore")
    ELSE IF currentStatus \in {"spawning", "connecting"} THEN Decide(s1, "skip")
    ELSE IF currentStatus = "ready" /\ ws.ws # NULL THEN Decide(ws.s, "skip")
    ELSE IF currentStatus = "ready" /\ timeSinceLastSpawn < READY_WAIT_MS
    THEN Decide(s1, "wait")
    ELSE IF /\ timeSinceLastSpawn < SPAWN_COOLDOWN_MS
            /\ currentStatus \notin {"failed", "stopped"}
    THEN Decide(s1, "wait")
    ELSE IF ~ModalConfigured(s) THEN Decide(spawnThrew(s3, tok), "spawn")
    ELSE Decide(IssueCall(s3, "create", tok, id, NULL), "spawn")

\* SessionDO.spawnSandbox up to the awaited modalClient.createSandbox (or, on the
\* restore path, up to the awaited restore fetch).
spawnSandbox(s, ord) ==
    LET currentStatus == s.sandbox.status
        timeSinceLastSpawn == s.now - s.sandbox.created_at
        snapshotImageId == s.sandbox.snapshot_image_id
        cb == enforceCircuitBreaker(s, s.sandbox.spawn_failure_count,
                                    s.sandbox.last_spawn_failure)
        s1 == cb.s
        ws == getSandboxWebSocket(s1, ord)
        tok == s1.nextTok
        id == s1.now
        s2 == [s1 EXCEPT !.isSpawningSandbox = TRUE,
                         !.sandbox = PersistForSpawn(@, s1.now, tok, id)]
        s3 == broadcast(s2, "sandbox_status", "spawning")
    IN
    IF ~cb.proceed THEN Decide(s1, "blocked")
    ELSE IF snapshotImageId # NULL /\ currentStatus \in TerminalStatuses
    THEN Decide(restoreFromSnapshot(s1, snapshotImageId), "restore")
    ELSE IF currentStatus \in {"spawning", "connecting"} THEN Decide(s1, "skip")
    ELSE IF currentStatus = "ready" /\ ws.ws # NULL THEN Decide(ws.s, "skip")
    ELSE IF currentStatus = "ready" /\ timeSinceLastSpawn < READY_WAIT_MS
    THEN Decide(s1, "wait")
    ELSE IF /\ timeSinceLastSpawn < SPAWN_COOLDOWN_MS
            /\ currentStatus \notin {"failed", "stopped"}
    THEN Decide(s1, "wait")
    ELSE IF s1.isSpawningSandbox THEN Decide(s1, "skip")
    ELSE IF ~ModalConfigured(s) THEN Decide(spawnThrew(s3, tok), "spawn")
    ELSE Decide(IssueCall(s3, "create", tok, id, NULL), "spawn")

\* The messages the queue driver may pick: SELECT ... WHERE status = 'pending'
\* ORDER BY created_at ASC LIMIT 1.  Rows with equal created_at are in no
\* promised order: pref names the one the store returns among them.
PendingOldest(msgs) ==
    {i \in DOMAIN msgs :
        /\ msgs[i].status = "pending"
        /\ \A j \in DOMAIN msgs :
              msgs[j].status = "pending" => msgs[i].created_at <= msgs[j].created_at}

PickPending(msgs, pref) ==
    IF pref \in PendingOldest(msgs) THEN pref ELSE Lowest(PendingOldest(msgs))

HasProcessing(msgs) == \E i \in DOMAIN msgs : msgs[i].status = "processing"

\* (mutation) the driver without its "a message is already processing" return
processMessageQueue_NoProcessingCheck(s, ord, pref) ==
    IF PendingOldest(s.messages) = {} THEN s
    ELSE LET m == PickPending(s.messages, pref)
             r == getSandboxWebSocket(s, ord)
         IN IF r.ws = NULL
            THEN spawnSandbox(broadcast(r.s, "sandbox_spawning", NULL), ord)
            ELSE LET s1 == [r.s EXCEPT !.messages[m].status = "processing",
                                       !.resp.dispatched = r.s.messages[m].id,
                                       !.resp.ws = r.ws]
                     s2 == updateLastActivity(s1, s1.now)
                 IN safeSend(s2, r.ws, "prompt", s2.messages[m].id)

\* SessionDO.processMessageQueue, including the spawnSandbox it awaits.
processMessageQueue(s, ord, pref) ==
    IF HasProcessing(s.messages) THEN s
    ELSE IF PendingOldest(s.messages) = {} THEN s
    ELSE LET m == PickPending(s.messages, pref)
             r == getSandboxWebSocket(s, ord)
         IN IF r.ws = NULL
            THEN spawnSandbox(broadcast(r.s, "sandbox_spawning", NULL), ord)
            ELSE LET s1 == [r.s EXCEPT !.messages[m].status = "processing",
                                       !.resp.dispatched = r.s.messages[m].id,
                                       !.resp.ws = r.ws]
                     s2 == updateLastActivity(s1, s1.now)
                 IN safeSend(s2, r.ws, "prompt", s2.messages[m].id)

\* SessionDO.triggerSnapshot up to the awaited snapshot fetch: [started, s].
\* Without the Modal bindings it returns from inside its try block, after the
\* status was written.
\* cont is what the caller does after the await ("close" for the inactivity
\* timeout, "none" for the fire-and-forget callers).
triggerSnapshot(s, reason, cont) ==
    LET isTerminalState == s.sandbox.status \in TerminalStatuses
        previousStatus == s.sandbox.status
        s1 == IF isTerminalState THEN s
              ELSE broadcast(updateSandboxStatus(s, "snapshotting"),
                             "sandbox_status", "snapshotting")
    IN
    IF s.sandbox.modal_object_id = NULL THEN [started |-> FALSE, s |-> s]
    ELSE IF s.sandbox.status = "snapshotting" THEN [started |-> FALSE, s |-> s]
    ELSE IF ~ModalConfigured(s)
    THEN [started |-> FALSE, s |-> broadcast(s1, "sandbox_warning", "snapshot_skipped")]
    ELSE [started |-> TRUE,
          s |-> [s1 EXCEPT !.ok = @ /\ Len(s.snaps) < MaxSnaps,
                           !.snaps = Append(@, [reason |-> reason,
                                                isTerminalState |-> isTerminalState,
                                                previousStatus |-> previousStatus,
                                                cont |-> cont])]]

\* ------------------------------------------------------------ handlers

Op(s, op) == [s EXCEPT !.resp.op = op]

\* The outcomes the two unspecified orders can have in the current state.
\* The order of ctx.getWebSockets() matters when it is scanned, that is when
\* this.sandboxWs is not an open socket, and n sandbox sockets are open (a handler
\* that accepts one more passes n = 1, the others n = 2).  The store's choice
\* among pending rows matters for a pending row whose created_at equals an earlier
\* pending row's (the row about to be inserted is pending with created_at = now).
OpenSockets == {i \in DOMAIN sockets : sockets[i].state = "open"}

Orders(n) ==
    IF sandboxWs \notin OpenSockets /\ Cardinality(OpenSockets) >= n
    THEN {"asc", "desc"}
    ELSE {"asc"}

PendingAt(i) ==
    IF i \in DOMAIN messages
    THEN [pending |-> messages[i].status = "pending", created_at |-> messages[i].created_at]
    ELSE [pending |-> TRUE, created_at |-> now]

Prefs ==
    {1} \cup {i \in 2..(Len(messages) + 1) :
                /\ PendingAt(i).pending
                /\ \E j \in DOMAIN messages :
                      j < i /\ PendingAt(j) = PendingAt(i)}

\* A client socket: readyState (open, closing), the close code the server gave
\* (0 if it did not close it), known: it has an entry in this.clients, mapped: it
\* has a row in ws_client_mapping, and the timer of its enforceAuthTimeout:
\* waiting (accepted less than WS_AUTH_TIMEOUT_MS ago), due, or done.
\* subscribed records that a subscribe message with a valid token was handled on
\* the socket; no handler reads it.
\* broken: the socket's send throws although its readyState is OPEN.
\* participantId, userId, status: the ClientInfo of its entry in this.clients
\* (NULL, "none" without one); mapping: participant_id of its row in
\* ws_client_mapping.
NewClient == [state |-> "open", code |-> 0, known |-> FALSE, mapped |-> FALSE,
              deadline |-> "waiting", subscribed |-> FALSE, broken |-> FALSE,
              sawLater |-> FALSE, participantId |-> NULL, userId |-> NULL,
              status |-> "none", mapping |-> NULL]

OpenClients(cl) == {i \in DOMAIN cl : cl[i].state = "open"}

\* the timers that have run out after d more milliseconds: a socket is accepted
\* at the current time, so a waiting timer has run out when d reaches the timeout
TimersAfter(cl, d) ==
    [i \in DOMAIN cl |-> IF cl[i].deadline = "waiting" /\ d >= WS_AUTH_TIMEOUT_MS
                         THEN [cl[i] EXCEPT !.deadline = "due"]
                         ELSE cl[i]]

\* time passes between handlers
Tick ==
    \E d \in TickSteps :
        /\ ticks < MaxTicks
        /\ Commit([Cur EXCEPT !.now = @ + d, !.ticks = @ + 1,
                              !.clients = TimersAfter(@, d)])

\* ids of the messages table.  generateId() returns an opaque id not in use; the
\* program can only tell ids apart or (in an ORDER BY) compare them, so a fresh id
\* is one just below or just above the ids in use.
UsedMsgIds(msgs) == {msgs[i].id : i \in DOMAIN msgs}

FreshMsgIds ==
    IF messages = <<>> THEN {MaxMsgs}
    ELSE {Lowest(UsedMsgIds(messages)) - 1, Highest(UsedMsgIds(messages)) + 1}

\* the user ids requests carry
Users == 1..MaxUsers

\* hashToken: SHA-256 of the plain token, as an injective function whose
\* values are neither plain tokens (1, 2, ...) nor NULL
hashToken(plainToken) == 0 - plainToken

\* SELECT * FROM participants WHERE user_id = ? has no ORDER BY: rows[0] is the
\* first or the last of the rows it finds, where it finds several
RowOrders(ps) ==
    IF \E i, j \in DOMAIN ps : i # j /\ ps[i].user_id = ps[j].user_id
    THEN {"first", "last"}
    ELSE {"first"}

\* SessionDO.getParticipantByUserId: the id of the row, NULL if there is none
getParticipantByUserId(ps, userId, pick) ==
    LET rows == {i \in DOMAIN ps : ps[i].user_id = userId}
    IN IF rows = {} THEN NULL
       ELSE IF pick = "first" THEN Lowest(rows)
       ELSE Highest(rows)

\* INSERT INTO participants: a row with a fresh id (its index)
InsertParticipant(s, row) ==
    [s EXCEPT !.participants = Append(@, row),
              !.ok = @ /\ Len(s.participants) < MaxParticipants]

\* SessionDO.createParticipant
createParticipant(s, userId) ==
    InsertParticipant(s, [user_id |-> userId, ws_auth_token |-> NULL,
                          github_access_token_encrypted |-> NULL,
                          github_token_expires_at |-> NULL, role |-> "member"])

\* getParticipantByUserId(userId), else createParticipant(userId); INSERT INTO
\* messages (... author_id, status, created_at) VALUES (... 'pending', now) for
\* that participant; then the queue driver: the common part of
\* handleEnqueuePrompt and handlePromptMessage.
EnqueueAndDrive(s, userId, pick, id, ord, pref) ==
    LET found == getParticipantByUserId(s.participants, userId, pick)
        author == IF found # NULL THEN [id |-> found, s |-> s]
                  ELSE [id |-> Len(s.participants) + 1, s |-> createParticipant(s, userId)]
    IN processMessageQueue(
           [author.s EXCEPT !.messages = Append(@, [id |-> id, status |-> "pending",
                                                    created_at |-> s.now,
                                                    author_id |-> author.id])],
           ord, pref)

\* POST /internal/prompt: SessionDO.handleEnqueuePrompt, for the users of a set
HttpPromptBy(users) ==
    \E authorId \in users, pick \in RowOrders(participants), id \in FreshMsgIds,
       ord \in Orders(2), pref \in Prefs :
        /\ Len(messages) < MaxMsgs
        /\ Commit(EnqueueAndDrive(Op(Cur, "prompt"), authorId, pick, id, ord, pref))

HttpPrompt == HttpPromptBy(Users)

\* the user that created the session
Owner == {OwnerParticipant.user_id}

\* SessionDO.getClientInfo: [client, s].  The entry of this.clients, else the
\* one recovered from ws_client_mapping; a socket with neither is closed (4002).
\* (mutation) only the in-memory map is consulted
getClientInfo_MapOnly(s, ws) ==
    IF s.clients[ws].known THEN [client |-> TRUE, s |-> s]
    ELSE [client |-> FALSE,
          s |-> [s EXCEPT !.clients[ws].state = "closing", !.clients[ws].code = 4002]]

getClientInfo(s, ws) ==
    IF s.clients[ws].known THEN [client |-> TRUE, s |-> s]
    ELSE IF s.clients[ws].mapped /\ s.clients[ws].mapping \in DOMAIN s.participants
    THEN [client |-> TRUE,
          s |-> [s EXCEPT !.resp.recovered = TRUE,
                          !.clients[ws].known = TRUE,
                          !.clients[ws].status = "active",
                          !.clients[ws].participantId = s.clients[ws].mapping,
                          !.clients[ws].userId =
                              s.participants[s.clients[ws].mapping].user_id]]
    ELSE [client |-> FALSE,
          s |-> [s EXCEPT !.clients[ws].state = "closing", !.clients[ws].code = 4002]]

\* SessionDO.handlePromptMessage: client message {type: "prompt"} on client socket ws
handlePromptMessage(s, ws, pick, id, ord, pref) ==
    LET c == getClientInfo(s, ws)
    IN IF c.client
       THEN EnqueueAndDrive(Op(c.s, "ws_prompt"), c.s.clients[ws].userId, pick, id, ord, pref)
       ELSE Op(c.s, "ws_prompt_rejected")

\* SessionDO.updatePresence: client message {type: "presence"} on client socket ws
updatePresence(s, ws, status) ==
    LET c == getClientInfo(s, ws)
    IN IF c.client
       THEN broadcast([c.s EXCEPT !.clients[ws].status = status], "presence_update", NULL)
       ELSE c.s

Presence ==
    \E ws \in OpenClients(clients), status \in {"active", "idle"} :
        Commit(updatePresence([Op(Cur, "presence") EXCEPT !.resp.client = ws], ws, status))

WsPrompt ==
    \E ws \in OpenClients(clients), pick \in RowOrders(participants), id \in FreshMsgIds,
       ord \in Orders(2), pref \in Prefs :
        /\ Len(messages) < MaxMsgs
        /\ Commit(handlePromptMessage([Cur EXCEPT !.resp.client = ws], ws, pick, id, ord, pref))

\* SessionDO.handleTyping
handleTyping(s, ord) ==
    IF s.sandboxWs = NULL \/ s.sockets[s.sandboxWs].state # "open"
    THEN IF ~s.isSpawningSandbox
         THEN spawnSandbox(broadcast(s, "sandbox_warming", NULL), ord)
         ELSE s
    ELSE s

\* client message {type: "typing"} on client socket ws
Typing ==
    \E ws \in OpenClients(clients), ord \in Orders(2) :
        Commit(handleTyping([Op(Cur, "typing") EXCEPT !.resp.client = ws], ord))

\* SessionDO.stopExecution: client message {type: "stop"} on client socket ws
Stop ==
    \E ws \in OpenClients(clients) :
        LET s == [Op(Cur, "stop") EXCEPT !.resp.client = ws]
        IN Commit(IF s.sandboxWs # NULL THEN safeSend(s, s.sandboxWs, "stop", NULL)
                  ELSE s)

\* `Bearer ${expectedToken}`: what follows "Bearer " in the string the header is
\* compared with.  A null token prints as the text "null".
BearerOf(expectedToken) == IF expectedToken = NULL THEN NullLiteral ELSE expectedToken

\* existingSandboxWs.close(1000, ...): readyState leaves OPEN at once, the close
\* event is delivered to webSocketClose later.
CloseSocket(s, ws) == [s EXCEPT !.sockets[ws].state = "closing"]

\* (mutation) the accept path without the queue re-drive at its end
handleWebSocketUpgrade_NoDrive(s, authHeader, sandboxId, ord, pref) ==
    LET expectedToken == s.sandbox.auth_token
        expectedSandboxId == s.sandbox.modal_sandbox_id
        server == Len(s.sockets) + 1
        s1 == [s EXCEPT !.ok = @ /\ Len(s.sockets) < MaxSockets,
                        !.sockets = Append(@, [sid |-> sandboxId, state |-> "open",
                                               presented |-> authHeader]),
                        !.resp.code = 101, !.resp.ws = server]
        existing == getSandboxWebSocket(s1, ord)
        s2 == IF existing.ws # NULL /\ existing.ws # server
              THEN CloseSocket(existing.s, existing.ws)
              ELSE existing.s
        s3 == [s2 EXCEPT !.sandboxWs = server, !.isSpawningSandbox = FALSE]
        s4 == broadcast(updateSandboxStatus(s3, "ready"), "sandbox_status", "ready")
    IN
    IF s.sandbox.status \in {"stopped", "stale"} THEN [s EXCEPT !.resp.code = 410]
    ELSE IF authHeader = NoHeader \/ authHeader # BearerOf(expectedToken)
    THEN [s EXCEPT !.resp.code = 401]
    ELSE IF expectedSandboxId # NULL /\ sandboxId # expectedSandboxId
    THEN [s EXCEPT !.resp.code = 403]
    ELSE scheduleInactivityCheck(updateLastActivity(s4, s4.now))

\* SessionDO.handleWebSocketUpgrade for ?type=sandbox.  authHeader is what follows
\* "Bearer " in the Authorization header (NoHeader if absent), sandboxId the
\* X-Sandbox-ID header (NULL if absent).
handleWebSocketUpgrade(s, authHeader, sandboxId, ord, pref) ==
    LET expectedToken == s.sandbox.auth_token
        expectedSandboxId == s.sandbox.modal_sandbox_id
        server == Len(s.sockets) + 1
        s1 == [s EXCEPT !.ok = @ /\ Len(s.sockets) < MaxSockets,
                        !.sockets = Append(@, [sid |-> sandboxId, state |-> "open",
                                               presented |-> authHeader]),
                        !.resp.code = 101, !.resp.ws = server]
        existing == getSandboxWebSocket(s1, ord)
        s2 == IF existing.ws # NULL /\ existing.ws # server
              THEN CloseSocket(existing.s, existing.ws)
              ELSE existing.s
        s3 == [s2 EXCEPT !.sandboxWs = server, !.isSpawningSandbox = FALSE]
        s4 == broadcast(updateSandboxStatus(s3, "ready"), "sandbox_status", "ready")
        s5 == scheduleInactivityCheck(updateLastActivity(s4, s4.now))
    IN
    IF s.sandbox.status \in {"stopped", "stale"} THEN [s EXCEPT !.resp.code = 410]
    ELSE IF authHeader = NoHeader \/ authHeader # BearerOf(expectedToken)
    THEN [s EXCEPT !.resp.code = 401]
    ELSE IF expectedSandboxId # NULL /\ sandboxId # expectedSandboxId
    THEN [s EXCEPT !.resp.code = 403]
    ELSE processMessageQueue(s5, ord, pref)

\* what a connecting party can present: nothing, the text "null", a wrong string,
\* or a token / sandbox id that was handed to the provider.  The handler reads
\* X-Sandbox-ID only after the Authorization header passed, so the header varies
\* only then.
PresentableTokens == {NoHeader, NullLiteral, BogusCredential} \cup {c.tok : c \in issued}

PresentableIds(authHeader) ==
    IF authHeader = BearerOf(sandbox.auth_token)
    THEN {NULL, BogusCredential} \cup {c.id : c \in issued}
    ELSE {NULL}

SandboxUpgrade ==
    \E authHeader \in PresentableTokens :
    \E sandboxId \in PresentableIds(authHeader), ord \in Orders(1), pref \in Prefs :
        Commit(handleWebSocketUpgrade(Op(Cur, "upgrade"), authHeader, sandboxId, ord, pref))

\* SessionDO.webSocketClose for a sandbox-tagged socket
webSocketClose(s, ws) ==
    updateSandboxStatus([s EXCEPT !.sockets[ws].state = "closed", !.sandboxWs = NULL],
                        "stopped")

SandboxSocketClosed ==
    \E ws \in DOMAIN sockets :
        /\ sockets[ws].state \in {"open", "closing"}
        /\ Commit(webSocketClose([Op(Cur, "ws_close") EXCEPT !.resp.ws = ws], ws))

\* SessionDO.handleSandboxMessage: an event that arrives on sandbox socket via
\* makes that socket this.sandboxWs; via = NULL is POST /internal/sandbox-event.
handleSandboxMessage(s, via) ==
    IF via # NULL /\ s.sandboxWs # via THEN [s EXCEPT !.sandboxWs = via] ELSE s

ProcessingId(msgs) ==
    IF HasProcessing(msgs)
    THEN msgs[Lowest({i \in DOMAIN msgs : msgs[i].status = "processing"})].id
    ELSE NULL

\* UPDATE messages SET status = ? WHERE id = ?
SetMessageStatus(msgs, id, status) ==
    [i \in DOMAIN msgs |-> IF msgs[i].id = id THEN [msgs[i] EXCEPT !.status = status]
                           ELSE msgs[i]]

\* the sandbox event of type execution_complete, as it is broadcast to the clients
ExecutionCompleteEvent(success, eventMessageId) ==
    [type |-> "execution_complete", messageId |-> eventMessageId, success |-> success]

\* (mutation) the processing row preferred to the id the event carries
processExecutionComplete_PreferProcessing(s, success, eventMessageId, ord, pref) ==
    LET messageId == IF ProcessingId(s.messages) # NULL THEN ProcessingId(s.messages)
                     ELSE eventMessageId
        status == IF success THEN "completed" ELSE "failed"
        s1 == IF messageId # NULL
              THEN [s EXCEPT !.messages = SetMessageStatus(@, messageId, status)]
              ELSE s
        s2 == triggerSnapshot(s1, "execution_complete", "none").s
        s3 == scheduleInactivityCheck(updateLastActivity(s2, s2.now))
        s4 == processMessageQueue(s3, ord, pref)
        event == ExecutionCompleteEvent(success, eventMessageId)
    IN IF Len(s4.calls) > Len(s3.calls)
       THEN [s4 EXCEPT !.calls[Len(s4.calls)].cont = event]
       ELSE broadcastEvent(s4, event)

\* SessionDO.processSandboxEvent for type execution_complete.  eventMessageId is
\* the event's messageId (NULL if the event carries none).
processExecutionComplete(s, success, eventMessageId, ord, pref) ==
    LET messageId == IF eventMessageId # NULL THEN eventMessageId
                     ELSE ProcessingId(s.messages)
        status == IF success THEN "completed" ELSE "failed"
        s1 == IF messageId # NULL
              THEN [s EXCEPT !.messages = SetMessageStatus(@, messageId, status)]
              ELSE s
        s2 == triggerSnapshot(s1, "execution_complete", "none").s
        s3 == scheduleInactivityCheck(updateLastActivity(s2, s2.now))
        s4 == processMessageQueue(s3, ord, pref)
        event == ExecutionCompleteEvent(success, eventMessageId)
    IN IF Len(s4.calls) > Len(s3.calls)
       THEN [s4 EXCEPT !.calls[Len(s4.calls)].cont = event]
       ELSE broadcastEvent(s4, event)

\* ids an event can name: a message of the table, or none
EventMessageIds == {NULL} \cup UsedMsgIds(messages)

\* an execution_complete event arrives; from says on which sockets (NULL: by
\* POST) and with which message ids
ExecutionCompleteFrom(from) ==
    \E e \in from, success \in BOOLEAN, ord \in Orders(2), pref \in Prefs :
        Commit(processExecutionComplete(
                   handleSandboxMessage(Op(Cur, "execution_complete"), e[1]),
                   success, e[2], ord, pref))

ExecutionComplete == ExecutionCompleteFrom(({NULL} \cup OpenSockets) \X EventMessageIds)

\* a connected sandbox reports the end of a prompt it was sent: of each prompt
\* once, so the message is still processing
SandboxCompletes ==
    ExecutionCompleteFrom({e \in OpenSockets \X {ProcessingId(messages)} :
                              <<e[2], sockets[e[1]].presented>> \in prompted})

\* SessionDO.processSandboxEvent for type heartbeat
processHeartbeat(s) ==
    broadcastEvent([s EXCEPT !.sandbox.last_heartbeat = s.now], [type |-> "heartbeat"])

Heartbeat ==
    \E via \in {NULL} \cup OpenSockets :
        Commit(processHeartbeat(handleSandboxMessage(Op(Cur, "heartbeat"), via)))

\* SessionDO.spawnSandbox after modalClient.createSandbox returned or threw.
\* outcome: "ok", or the class of the provider's error.
spawnReturn(s, i, outcome) ==
    LET c == s.calls[i]
        s0 == [s EXCEPT !.calls = RemoveAt(@, i)]
        ok1 == [s0 EXCEPT !.sandbox.modal_object_id = c.tok]
        ok2 == broadcast(updateSandboxStatus(ok1, "connecting"), "sandbox_status", "connecting")
        ok3 == [ok2 EXCEPT !.sandbox.spawn_failure_count = 0]
        f1 == [s0 EXCEPT !.sandbox.spawn_failure_count = @ + 1,
                         !.sandbox.last_spawn_failure = s0.now]
        f2 == broadcast(updateSandboxStatus(f1, "failed"), "sandbox_error",
                        [disabled |-> FALSE, failures |-> 0, waitSeconds |-> 0])
    IN afterCall([(IF outcome = "ok" THEN ok3 ELSE f2) EXCEPT !.isSpawningSandbox = FALSE],
                 c.cont)

\* SessionDO.restoreFromSnapshot after the restore fetch returned or threw
restoreReturn(s, i, outcome) ==
    LET c == s.calls[i]
        s0 == [s EXCEPT !.calls = RemoveAt(@, i)]
        ok1 == broadcast(updateSandboxStatus(s0, "connecting"), "sandbox_status", "connecting")
    IN afterCall(IF outcome = "ok"
                 THEN broadcast(ok1, "sandbox_restored", NULL)
                 ELSE broadcast(updateSandboxStatus(s0, "failed"), "sandbox_error",
                                [disabled |-> FALSE, failures |-> 0, waitSeconds |-> 0]),
                 c.cont)

SpawnReturn ==
    \E i \in DOMAIN calls, outcome \in {"ok", "permanent", "transient"} :
        /\ calls[i].kind = "create"
        /\ Commit(spawnReturn([Op(Cur, "spawn_return") EXCEPT !.resp.decision = outcome],
                              i, outcome))

RestoreReturn ==
    \E i \in DOMAIN calls, outcome \in {"ok", "failed"} :
        /\ calls[i].kind = "restore"
        /\ Commit(restoreReturn([Op(Cur, "restore_return") EXCEPT !.resp.decision = outcome],
                                i, outcome))

\* SessionDO.alarm after its awaited triggerSnapshot("inactivity_timeout")
afterInactivitySnapshot(s, ord) ==
    LET r == getSandboxWebSocket(s, ord)
        s1 == IF r.ws # NULL
              THEN [CloseSocket(safeSend(r.s, r.ws, "shutdown", NULL), r.ws)
                       EXCEPT !.sandboxWs = NULL]
              ELSE r.s
    IN broadcast(s1, "sandbox_warning", "stopped")

\* (mutation) the previous status is written back whatever the state the
\* snapshot started in
snapshotReturn_AlwaysRestore(s, i, image, ord) ==
    LET p == s.snaps[i]
        s0 == [s EXCEPT !.snaps = RemoveAt(@, i), !.resp.decision = "restore_status"]
        s1 == IF image # NULL
              THEN broadcast([s0 EXCEPT !.sandbox.snapshot_image_id = image],
                             "snapshot_saved", image)
              ELSE s0
        s2 == broadcast(updateSandboxStatus(s1, p.previousStatus),
                        "sandbox_status", p.previousStatus)
    IN IF p.cont = "close" THEN afterInactivitySnapshot(s2, ord) ELSE s2

\* SessionDO.triggerSnapshot after the snapshot fetch returned or threw, and then
\* what its caller does after the await.  image = NULL: no image was saved.
\* The step reports which of its cases applied: the previous status written back
\* ("restore_status"), or the status left alone because the snapshot started in a
\* terminal state ("keep_terminal") or was taken for a heartbeat timeout
\* ("keep_stale").
snapshotReturn(s, i, image, ord) ==
    LET p == s.snaps[i]
        s0 == [s EXCEPT !.snaps = RemoveAt(@, i),
                        !.resp.decision = IF p.isTerminalState THEN "keep_terminal"
                                          ELSE IF p.reason = "heartbeat_timeout"
                                          THEN "keep_stale" ELSE "restore_status"]
        s1 == IF image # NULL
              THEN broadcast([s0 EXCEPT !.sandbox.snapshot_image_id = image],
                             "snapshot_saved", image)
              ELSE s0
        s2 == IF ~p.isTerminalState /\ p.reason # "heartbeat_timeout"
              THEN broadcast(updateSandboxStatus(s1, p.previousStatus),
                             "sandbox_status", p.previousStatus)
              ELSE s1
    IN IF p.cont = "close" THEN afterInactivitySnapshot(s2, ord) ELSE s2

SnapshotReturn ==
    \E i \in DOMAIN snaps, image \in 0..MaxImages, ord \in Orders(2) :
        Commit(snapshotReturn(Op(Cur, "snapshot_return"), i, image, ord))

\* SessionDO.handleHeartbeatTimeout: [timedOut, s]
handleHeartbeatTimeout(s, lastHeartbeat, timeoutMs) ==
    IF lastHeartbeat # NULL /\ s.now - lastHeartbeat > timeoutMs
    THEN [timedOut |-> TRUE,
          s |-> broadcast(updateSandboxStatus(
                              triggerSnapshot(s, "heartbeat_timeout", "none").s, "stale"),
                          "sandbox_status", "stale")]
    ELSE [timedOut |-> FALSE, s |-> s]

Max(a, b) == IF a >= b THEN a ELSE b

\* (mutation) the inactivity timeout without a look at the client sockets
alarm_NoExtension(s, ord) ==
    LET sb == s.sandbox
        hb == handleHeartbeatTimeout(s, sb.last_heartbeat, HEARTBEAT_TIMEOUT_MS)
        inactiveTime == s.now - sb.last_activity
        stopped == broadcast(updateSandboxStatus(s, "stopped"), "sandbox_status", "stopped")
        snap == triggerSnapshot([stopped EXCEPT !.resp.decision = "timeout"],
                                "inactivity_timeout", "close")
    IN
    IF sb.status \in TerminalStatuses THEN s
    ELSE IF hb.timedOut THEN [hb.s EXCEPT !.resp.decision = "stale"]
    ELSE IF sb.last_activity # NULL /\ sb.status \in {"ready", "running"}
    THEN IF inactiveTime >= INACTIVITY_TIMEOUT_MS
         THEN IF snap.started THEN snap.s
              ELSE afterInactivitySnapshot(snap.s, ord)
         ELSE [s EXCEPT !.alarmAt = s.now + Max(INACTIVITY_TIMEOUT_MS - inactiveTime,
                                                MIN_CHECK_MS)]
    ELSE [s EXCEPT !.alarmAt = s.now + MIN_CHECK_MS]

\* SessionDO.alarm up to its awaited provider call, if it makes one.  sb is the
\* sandbox row as read at the start of the handler.
alarm(s, ord) ==
    LET sb == s.sandbox
        hb == handleHeartbeatTimeout(s, sb.last_heartbeat, HEARTBEAT_TIMEOUT_MS)
        inactiveTime == s.now - sb.last_activity
        warned == [broadcast(s, "sandbox_warning", "inactivity")
                      EXCEPT !.alarmAt = s.now + INACTIVITY_EXTENSION_MS,
                             !.resp.decision = "extend"]
        stopped == broadcast(updateSandboxStatus(s, "stopped"), "sandbox_status", "stopped")
        snap == triggerSnapshot([stopped EXCEPT !.resp.decision = "timeout"],
                                "inactivity_timeout", "close")
    IN
    IF sb.status \in TerminalStatuses THEN s
    ELSE IF hb.timedOut THEN [hb.s EXCEPT !.resp.decision = "stale"]
    ELSE IF sb.last_activity # NULL /\ sb.status \in {"ready", "running"}
    THEN IF inactiveTime >= INACTIVITY_TIMEOUT_MS
         THEN IF OpenClients(s.clients) # {} THEN warned
              ELSE IF snap.started THEN snap.s
              ELSE afterInactivitySnapshot(snap.s, ord)
         ELSE [s EXCEPT !.alarmAt = s.now + Max(INACTIVITY_TIMEOUT_MS - inactiveTime,
                                                MIN_CHECK_MS)]
    ELSE [s EXCEPT !.alarmAt = s.now + MIN_CHECK_MS]

\* the scheduled alarm fires (at or after its time) and is consumed
Alarm ==
    \E ord \in Orders(2) :
        /\ alarmAt # NULL
        /\ now >= alarmAt
        /\ Commit(alarm([Op(Cur, "alarm") EXCEPT !.alarmAt = NULL], ord))

\* SessionDO.handleWebSocketUpgrade for a client: the socket is accepted and the
\* timer of enforceAuthTimeout starts
ClientConnect ==
    /\ Len(clients) < MaxClients
    /\ Commit([Op(Cur, "client_connect") EXCEPT !.clients = Append(@, NewClient),
                                                !.resp.code = 101,
                                                !.resp.ws = Len(clients) + 1])

\* generateId(32): a plain token never issued before.  Every token issued is at
\* most the highest one stored, so the next one is above it.
FreshWsToken(ps) == Highest({0} \cup {0 - ps[i].ws_auth_token : i \in DOMAIN ps}) + 1

\* SessionDO.getParticipantByWsTokenHash: the id of the row, NULL if there is none
getParticipantByWsTokenHash(ps, tokenHash) ==
    IF \E i \in DOMAIN ps : ps[i].ws_auth_token = tokenHash
    THEN Lowest({i \in DOMAIN ps : ps[i].ws_auth_token = tokenHash})
    ELSE NULL

\* SessionDO.handleSubscribe: token is the token of the subscribe message (NULL
\* if it has none)
handleSubscribe(s, ws, token) ==
    LET participant == IF token = NULL THEN NULL
                       ELSE getParticipantByWsTokenHash(s.participants, hashToken(token))
    IN IF participant # NULL
       THEN broadcast([s EXCEPT !.clients[ws].known = TRUE,
                                !.clients[ws].status = "active",
                                !.clients[ws].participantId = participant,
                                !.clients[ws].userId = s.participants[participant].user_id,
                                !.clients[ws].mapped = TRUE,
                                !.clients[ws].mapping = participant,
                                !.clients[ws].subscribed = TRUE],
                      "presence_update", NULL)
       ELSE [s EXCEPT !.clients[ws].state = "closing", !.clients[ws].code = 4001]

\* the tokens a client can present: none, one that is no participant's, and
\* those of the participants
ClientSubscribe ==
    \E ws \in OpenClients(clients),
       token \in {NULL, FreshWsToken(participants)}
                    \cup {0 - participants[i].ws_auth_token : i \in DOMAIN participants} :
        Commit(handleSubscribe([Op(Cur, "subscribe") EXCEPT !.resp.ws = ws], ws, token))

\* POST /internal/participants: SessionDO.handleAddParticipant
AddParticipant ==
    \E userId \in Users :
        Commit([InsertParticipant(Op(Cur, "add_participant"),
                                  [user_id |-> userId, ws_auth_token |-> NULL,
                                   github_access_token_encrypted |-> NULL,
                                   github_token_expires_at |-> NULL, role |-> "member"])
                   EXCEPT !.resp.code = 200])

\* POST /internal/ws-token: SessionDO.handleGenerateWsToken.  The two UPDATEs
\* of an existing row are COALESCE(?, column): a NULL leaves the column as it is.
handleGenerateWsToken(s, userId, githubTokenEncrypted, githubTokenExpiresAt, pick) ==
    IF userId = NULL THEN [s EXCEPT !.resp.code = 400]
    ELSE
    LET found == getParticipantByUserId(s.participants, userId, pick)
        s1 == IF found # NULL
              THEN [s EXCEPT !.participants[found].github_access_token_encrypted =
                                 IF githubTokenEncrypted # NULL
                                 THEN githubTokenEncrypted ELSE @,
                             !.participants[found].github_token_expires_at =
                                 IF githubTokenExpiresAt # NULL
                                 THEN githubTokenExpiresAt ELSE @]
              ELSE InsertParticipant(s, [user_id |-> userId, ws_auth_token |-> NULL,
                                         github_access_token_encrypted |-> githubTokenEncrypted,
                                         github_token_expires_at |-> githubTokenExpiresAt,
                                         role |-> "member"])
        participant == getParticipantByUserId(s1.participants, userId, pick)
        plainToken == FreshWsToken(s.participants)
    IN [s1 EXCEPT !.participants[participant].ws_auth_token = hashToken(plainToken),
                  !.resp.code = 200,
                  !.resp.client = participant,
                  !.ok = @ /\ plainToken <= MaxWsTokens]

\* the expiry times a token can come with: none, inside the buffer of
\* isGitHubTokenExpired, well beyond it
ExpiryTimes == {NULL, now + SPAWN_COOLDOWN_MS, now + INACTIVITY_TIMEOUT_MS}

\* POST /internal/ws-token for the users of a set, with host tokens and expiry
\* times of two more
GenerateWsTokenFor(users, hostTokens, expiryTimes) ==
    \E userId \in users, githubTokenEncrypted \in hostTokens,
       githubTokenExpiresAt \in expiryTimes, pick \in RowOrders(participants) :
        Commit(handleGenerateWsToken(Op(Cur, "ws_token"), userId, githubTokenEncrypted,
                                     githubTokenExpiresAt, pick))

GenerateWsToken ==
    GenerateWsTokenFor({NULL} \cup Users, {NULL, Encrypted, Undecryptable}, ExpiryTimes)


\* (mutation) the deadline check without the lookup in ws_client_mapping
enforceAuthTimeout_MapOnly(s, ws) ==
    LET s0 == [s EXCEPT !.clients[ws].deadline = "done"]
    IN IF s.clients[ws].state # "open" THEN s0
       ELSE IF s.clients[ws].known THEN s0
       ELSE [s0 EXCEPT !.clients[ws].state = "closing", !.clients[ws].code = 4008]

\* SessionDO.enforceAuthTimeout after its wait of WS_AUTH_TIMEOUT_MS
enforceAuthTimeout(s, ws) ==
    LET s0 == [s EXCEPT !.clients[ws].deadline = "done"]
    IN IF s.clients[ws].state # "open" THEN s0
       ELSE IF s.clients[ws].known THEN s0
       ELSE IF s.clients[ws].mapped THEN s0
       ELSE [s0 EXCEPT !.clients[ws].state = "closing", !.clients[ws].code = 4008]

AuthDeadline ==
    \E ws \in DOMAIN clients :
        /\ clients[ws].deadline = "due"
        /\ Commit(enforceAuthTimeout([Op(Cur, "auth_deadline") EXCEPT !.resp.ws = ws], ws))

\* SessionDO.webSocketClose for a client socket: its entry of this.clients is
\* deleted, the others are told if it had one, and the socket is gone (a timer
\* still waiting for it finds it not open)
clientSocketClose(s, ws) ==
    LET s1 == [s EXCEPT !.clients = RemoveAt(@, ws)]
    IN IF s.clients[ws].known THEN broadcast(s1, "presence_leave", NULL) ELSE s1

ClientDisconnect ==
    \E ws \in DOMAIN clients :
        Commit(clientSocketClose(Op(Cur, "client_disconnect"), ws))

\* the connection under an open client socket fails: from now on its send throws
ClientBreaks ==
    \E ws \in OpenClients(clients) :
        /\ ~clients[ws].broken
        /\ Commit([Op(Cur, "client_breaks") EXCEPT !.clients[ws].broken = TRUE])

\* ------------------------------------------------------------ create-pr
\* A branch name: its spelling once trimmed and lower-cased (name, "" for no
\* name at all), whether it is written with upper-case letters, and whether
\* white space surrounds it.
NoBranch == [name |-> "", upper |-> FALSE, padded |-> FALSE]

\* generateBranchName(sessionId): one branch per session, spelled as the
\* external session name is
headBranch == [name |-> "head", upper |-> TRUE, padded |-> FALSE]

\* the branch names a push event can carry
EventBranches ==
    {NoBranch,
     [name |-> "head", upper |-> FALSE, padded |-> TRUE],
     [name |-> "other", upper |-> FALSE, padded |-> FALSE]}

\* SessionDO.normalizeBranchName: trim().toLowerCase()
normalizeBranchName(branchName) == [branchName EXCEPT !.upper = FALSE, !.padded = FALSE]

\* SessionDO.isGitHubTokenExpired
isGitHubTokenExpired(participant, t) ==
    IF participant.github_token_expires_at = NULL THEN FALSE
    ELSE t + GITHUB_TOKEN_BUFFER_MS >= participant.github_token_expires_at

\* SessionDO.getPromptingUserForPR: [user, status]
getPromptingUserForPR(s) ==
    IF ~HasProcessing(s.messages) THEN [user |-> NULL, status |-> 400]
    ELSE LET participantId ==
                 s.messages[Lowest({i \in DOMAIN s.messages :
                                      s.messages[i].status = "processing"})].author_id
         IN IF participantId \notin DOMAIN s.participants
            THEN [user |-> NULL, status |-> 401]
            ELSE IF s.participants[participantId].github_access_token_encrypted = NULL
            THEN [user |-> NULL, status |-> 401]
            ELSE IF isGitHubTokenExpired(s.participants[participantId], s.now)
            THEN [user |-> NULL, status |-> 401]
            ELSE [user |-> participantId, status |-> 0]

\* A create-pr request.  at: where it stands (repository: awaiting getRepository,
\* push: awaiting the push promise, pr: awaiting createPullRequest, answered);
\* code: its HTTP status once answered; push: what became of its push promise
\* (none while it has none or it is pending, resolved, rejected, timeout);
\* timer: the timer of its push (none, armed, fired, cleared); since: when the
\* timer was set; branch: its key in this.pendingPushResolvers.
\* POST /internal/create-pr: SessionDO.handleCreatePR up to the awaited getRepository
handleCreatePR(s) ==
    LET promptingUser == getPromptingUserForPR(s)
    IN IF promptingUser.user = NULL THEN [s EXCEPT !.resp.code = promptingUser.status]
       ELSE IF s.participants[promptingUser.user].github_access_token_encrypted
                   = Undecryptable
       THEN [s EXCEPT !.resp.code = 500]
       ELSE [s EXCEPT !.pushes = Append(@, [at |-> "repository", code |-> 0,
                                            user |-> promptingUser.user,
                                            push |-> "none", timer |-> "none",
                                            since |-> NULL, branch |-> NoBranch]),
                      !.resp.client = Len(s.pushes) + 1,
                      !.ok = @ /\ Len(s.pushes) < MaxPushes]

CreatePR == Commit(handleCreatePR(Op(Cur, "create_pr")))

\* the answer of request i
Answer(s, i, code) ==
    [s EXCEPT !.pushes[i].at = "answered", !.pushes[i].code = code, !.resp.code = code]

\* this.pendingPushResolvers.delete(branch)
DeleteResolver(resolvers, branch) == {e \in resolvers : e.branch # branch}

\* SessionDO.pushBranchToRemote up to the awaited push promise, for request i;
\* without a sandbox socket it returns at once and handleCreatePR goes on to
\* createPullRequest
pushBranchToRemote(s, i, branchName, ord) ==
    LET r == getSandboxWebSocket(s, ord)
        normalizedBranch == normalizeBranchName(branchName)
    IN IF r.ws = NULL THEN [r.s EXCEPT !.pushes[i].at = "pr"]
       ELSE safeSend([r.s EXCEPT
                         !.pendingPushResolvers =
                             DeleteResolver(@, normalizedBranch)
                                 \cup {[branch |-> normalizedBranch, request |-> i]},
                         !.pushes[i].at = "push",
                         !.pushes[i].branch = normalizedBranch,
                         !.pushes[i].timer = "armed",
                         !.pushes[i].since = r.s.now],
                     r.ws, "push", NULL)

\* handleCreatePR after getRepository returned or threw
RepositoryReturn ==
    \E i \in DOMAIN pushes, outcome \in {"ok", "error"}, ord \in Orders(2) :
        LET s == [Op(Cur, "repository_return") EXCEPT !.resp.client = i]
        IN /\ pushes[i].at = "repository"
           /\ Commit(IF outcome = "ok" THEN pushBranchToRemote(s, i, headBranch, ord)
                     ELSE Answer(s, i, 500))

\* pushBranchToRemote after its promise settled (the timer is cleared in its
\* finally), and handleCreatePR up to the awaited createPullRequest
afterPush(s, i, outcome) ==
    LET s1 == [s EXCEPT !.pushes[i].push = outcome,
                        !.pushes[i].timer = IF @ = "armed" THEN "cleared" ELSE @]
    IN IF outcome = "resolved" THEN [s1 EXCEPT !.pushes[i].at = "pr"]
       ELSE Answer(s1, i, 500)

\* SessionDO.handlePushEvent, with what the request whose promise it settles
\* does next
handlePushEvent(s, type, branchName) ==
    LET normalizedBranch == normalizeBranchName(branchName)
        resolver == {e \in s.pendingPushResolvers : e.branch = normalizedBranch}
    IN IF branchName.name = "" THEN s
       ELSE IF resolver = {} THEN s
       ELSE LET i == (CHOOSE e \in resolver : TRUE).request
                s1 == [s EXCEPT !.pendingPushResolvers = DeleteResolver(@, normalizedBranch)]
            IN afterPush(s1, i, IF type = "push_complete" THEN "resolved" ELSE "rejected")

\* SessionDO.processSandboxEvent for types push_complete and push_error: the
\* promise is settled and the event broadcast; the request whose promise it
\* was goes on after the broadcast, which it does not touch
PushEvent ==
    \E via \in {NULL} \cup OpenSockets, type \in {"push_complete", "push_error"},
       branchName \in EventBranches :
        Commit(handlePushEvent(
                   broadcastEvent(handleSandboxMessage(Op(Cur, "push_event"), via),
                                  [type |-> type, branchName |-> branchName]),
                   type, branchName))

\* the callback of the timer of request i, PUSH_TIMEOUT_MS after it was set
PushTimeout ==
    \E i \in DOMAIN pushes :
        LET s == [Op(Cur, "push_timeout") EXCEPT !.resp.client = i,
                                                 !.pushes[i].timer = "fired"]
        IN /\ pushes[i].timer = "armed"
           /\ now - pushes[i].since >= PUSH_TIMEOUT_MS
           /\ Commit(IF \E e \in pendingPushResolvers : e.branch = pushes[i].branch
                     THEN afterPush([s EXCEPT !.pendingPushResolvers =
                                                  DeleteResolver(@, pushes[i].branch)],
                                    i, "timeout")
                     ELSE s)

\* handleCreatePR after createPullRequest returned or threw
CreatePullRequestReturn ==
    \E i \in DOMAIN pushes, outcome \in {"ok", "error"} :
        LET s == [Op(Cur, "create_pr_return") EXCEPT !.resp.client = i]
        IN /\ pushes[i].at = "pr"
           /\ Commit(IF outcome = "ok"
                     THEN Answer(broadcast(
                                     [s EXCEPT !.artifacts =
                                                   Append(@, [type |-> "pr", request |-> i]),
                                               !.session.branch_name = headBranch],
                                     "artifact_created", NULL),
                                 i, 200)
                     ELSE Answer(s, i, 500))

\* The host suspends the idle object and re-creates it: memory is lost
\* (sandboxWs = null, isSpawningSandbox = false, this.clients empty), storage and
\* sockets survive.  The deadline checks still run afterwards: their handler
\* provides for an empty this.clients.
Hibernate ==
    /\ calls = <<>>
    /\ snaps = <<>>
    /\ \A i \in DOMAIN pushes : pushes[i].at = "answered"
    /\ Commit([Op(Cur, "hibernate") EXCEPT
                  !.sandboxWs = NULL, !.isSpawningSandbox = FALSE,
                  !.pendingPushResolvers = {},
                  !.clients = [i \in DOMAIN @ |-> [@[i] EXCEPT !.known = FALSE,
                                                                !.status = "none",
                                                                !.participantId = NULL,
                                                                !.userId = NULL]]])

\* The Worker is deployed anew with other bindings (a secret or variable is
\* added or removed).  The object is re-created as after a suspension: memory is
\* lost, storage survives.  Taken here only when no call is awaited and no
\* socket is open, so that nothing hangs on what a deployment does to them.
Deploy ==
    /\ calls = <<>>
    /\ snaps = <<>>
    /\ \A i \in DOMAIN pushes : pushes[i].at = "answered"
    /\ \A w \in DOMAIN sockets : sockets[w].state = "closed"
    /\ \A i \in DOMAIN clients : clients[i].state = "closed"
    /\ \E e \in [MODAL_API_SECRET : BOOLEAN, MODAL_WORKSPACE : BOOLEAN] \ {env} :
          Commit([Op(Cur, "deploy") EXCEPT
                     !.env = e, !.sandboxWs = NULL, !.isSpawningSandbox = FALSE,
                     !.pendingPushResolvers = {},
                     !.clients = [i \in DOMAIN @ |-> [@[i] EXCEPT !.known = FALSE,
                                                                   !.status = "none",
                                                                   !.participantId = NULL,
                                                                   !.userId = NULL]]])

Next ==
    \/ Tick
    \/ Deploy
    \/ HttpPrompt
    \/ WsPrompt
    \/ Typing
    \/ Stop
    \/ Presence
    \/ SandboxUpgrade
    \/ SandboxSocketClosed
    \/ ExecutionComplete
    \/ Heartbeat
    \/ SpawnReturn
    \/ RestoreReturn
    \/ SnapshotReturn
    \/ Alarm
    \/ ClientConnect
    \/ ClientSubscribe
    \/ AuthDeadline
    \/ ClientDisconnect
    \/ ClientBreaks
    \/ Hibernate
    \/ AddParticipant
    \/ GenerateWsToken
    \/ CreatePR
    \/ RepositoryReturn
    \/ PushEvent
    \/ PushTimeout
    \/ CreatePullRequestReturn

Spec == Init /\ [][Next]_vars

\* ------------------------------------------------- decision functions
\* decisions.ts: the pure functions of the lifecycle manager.  A result is the
\* record the function returns; an optional field it does not set is absent.

\* values of the status column
SandboxStatuses ==
    {"pending", "spawning", "connecting", "warming", "syncing", "ready", "running",
     "stale", "snapshotting", "stopped", "failed"}

DEFAULT_CIRCUIT_BREAKER_CONFIG ==
    [threshold |-> CIRCUIT_BREAKER_THRESHOLD, windowMs |-> CIRCUIT_BREAKER_WINDOW_MS]

DEFAULT_SPAWN_CONFIG == [cooldownMs |-> SPAWN_COOLDOWN_MS, readyWaitMs |-> READY_WAIT_MS]

DEFAULT_INACTIVITY_CONFIG ==
    [timeoutMs |-> INACTIVITY_TIMEOUT_MS, extensionMs |-> INACTIVITY_EXTENSION_MS,
     minCheckIntervalMs |-> MIN_CHECK_MS]

DEFAULT_HEARTBEAT_CONFIG == [timeoutMs |-> HEARTBEAT_TIMEOUT_MS]

\* (mutation) the window has passed only strictly after windowMs
evaluateCircuitBreaker_StrictWindow(state, config, nowMs) ==
    LET timeSinceLastFailure == nowMs - state.lastFailureTime IN
    IF state.failureCount > 0 /\ timeSinceLastFailure > config.windowMs
    THEN [shouldProceed |-> TRUE, shouldReset |-> TRUE]
    ELSE IF state.failureCount >= config.threshold /\ timeSinceLastFailure <= config.windowMs
    THEN [shouldProceed |-> FALSE, shouldReset |-> FALSE,
          waitTimeMs |-> config.windowMs - timeSinceLastFailure]
    ELSE [shouldProceed |-> TRUE, shouldReset |-> FALSE]

evaluateCircuitBreaker(state, config, nowMs) ==
    LET timeSinceLastFailure == nowMs - state.lastFailureTime IN
    IF state.failureCount > 0 /\ timeSinceLastFailure >= config.windowMs
    THEN [shouldProceed |-> TRUE, shouldReset |-> TRUE]
    ELSE IF state.failureCount >= config.threshold /\ timeSinceLastFailure < config.windowMs
    THEN [shouldProceed |-> FALSE, shouldReset |-> FALSE,
          waitTimeMs |-> config.windowMs - timeSinceLastFailure]
    ELSE [shouldProceed |-> TRUE, shouldReset |-> FALSE]

\* Math.round(ms / 1000) of a non-negative number of milliseconds
RoundSeconds(ms) == (ms + 500) \div 1000

\* (mutation) the cooldown without its exception for failed and stopped
evaluateSpawnDecision_CooldownForAll(state, config, nowMs, isSpawningInMemory) ==
    LET timeSinceLastSpawn == nowMs - state.createdAt IN
    IF state.snapshotImageId # NULL /\ state.status \in {"stopped", "stale", "failed"}
    THEN [action |-> "restore", snapshotImageId |-> state.snapshotImageId]
    ELSE IF state.status \in {"spawning", "connecting"}
    THEN [action |-> "skip",
          reason |-> IF state.status = "spawning" THEN "already spawning"
                     ELSE "already connecting"]
    ELSE IF state.status = "ready" /\ state.hasActiveWebSocket
    THEN [action |-> "skip", reason |-> "sandbox ready with active WebSocket"]
    ELSE IF state.status = "ready" /\ timeSinceLastSpawn < config.readyWaitMs
    THEN [action |-> "wait", reason |-> "status ready but no WebSocket",
          seconds |-> RoundSeconds(timeSinceLastSpawn)]
    ELSE IF timeSinceLastSpawn < config.cooldownMs
    THEN [action |-> "wait", reason |-> "last spawn, waiting",
          seconds |-> RoundSeconds(timeSinceLastSpawn)]
    ELSE IF isSpawningInMemory
    THEN [action |-> "skip", reason |-> "spawn already in progress (in-memory flag)"]
    ELSE [action |-> "spawn"]

\* The two wait reasons are template strings that end in the rounded seconds
\* since the last spawn: the fixed text and the number are two fields here.
evaluateSpawnDecision(state, config, nowMs, isSpawningInMemory) ==
    LET timeSinceLastSpawn == nowMs - state.createdAt IN
    IF state.snapshotImageId # NULL /\ state.status \in {"stopped", "stale", "failed"}
    THEN [action |-> "restore", snapshotImageId |-> state.snapshotImageId]
    ELSE IF state.status \in {"spawning", "connecting"}
    THEN [action |-> "skip",
          reason |-> IF state.status = "spawning" THEN "already spawning"
                     ELSE "already connecting"]
    ELSE IF state.status = "ready" /\ state.hasActiveWebSocket
    THEN [action |-> "skip", reason |-> "sandbox ready with active WebSocket"]
    ELSE IF state.status = "ready" /\ timeSinceLastSpawn < config.readyWaitMs
    THEN [action |-> "wait", reason |-> "status ready but no WebSocket",
          seconds |-> RoundSeconds(timeSinceLastSpawn)]
    ELSE IF /\ timeSinceLastSpawn < config.cooldownMs
            /\ state.status # "failed"
            /\ state.status # "stopped"
    THEN [action |-> "wait", reason |-> "last spawn, waiting",
          seconds |-> RoundSeconds(timeSinceLastSpawn)]
    ELSE IF isSpawningInMemory
    THEN [action |-> "skip", reason |-> "spawn already in progress (in-memory flag)"]
    ELSE [action |-> "spawn"]

\* (mutation) the next check at the remaining time, without the minimum interval
evaluateInactivityTimeout_NoMinimum(state, config, nowMs) ==
    LET inactiveTime == nowMs - state.lastActivity IN
    IF state.status \in {"stopped", "failed", "stale"}
    THEN [action |-> "schedule", nextCheckMs |-> config.minCheckIntervalMs]
    ELSE IF state.lastActivity = NULL
    THEN [action |-> "schedule", nextCheckMs |-> config.minCheckIntervalMs]
    ELSE IF state.status # "ready" /\ state.status # "running"
    THEN [action |-> "schedule", nextCheckMs |-> config.minCheckIntervalMs]
    ELSE IF inactiveTime >= config.timeoutMs
    THEN IF state.connectedClientCount > 0
         THEN [action |-> "extend", extensionMs |-> config.extensionMs, shouldWarn |-> TRUE]
         ELSE [action |-> "timeout", shouldSnapshot |-> TRUE]
    ELSE [action |-> "schedule", nextCheckMs |-> config.timeoutMs - inactiveTime]

evaluateInactivityTimeout(state, config, nowMs) ==
    LET inactiveTime == nowMs - state.lastActivity IN
    IF state.status \in {"stopped", "failed", "stale"}
    THEN [action |-> "schedule", nextCheckMs |-> config.minCheckIntervalMs]
    ELSE IF state.lastActivity = NULL
    THEN [action |-> "schedule", nextCheckMs |-> config.minCheckIntervalMs]
    ELSE IF state.status # "ready" /\ state.status # "running"
    THEN [action |-> "schedule", nextCheckMs |-> config.minCheckIntervalMs]
    ELSE IF inactiveTime >= config.timeoutMs
    THEN IF state.connectedClientCount > 0
         THEN [action |-> "extend", extensionMs |-> config.extensionMs, shouldWarn |-> TRUE]
         ELSE [action |-> "timeout", shouldSnapshot |-> TRUE]
    ELSE [action |-> "schedule",
          nextCheckMs |-> Max(config.timeoutMs - inactiveTime, config.minCheckIntervalMs)]

\* (mutation) stale from the timeout on, not only beyond it
evaluateHeartbeatHealth_AtTimeout(lastHeartbeat, config, nowMs) ==
    LET heartbeatAge == nowMs - lastHeartbeat IN
    IF lastHeartbeat = NULL THEN [isStale |-> FALSE]
    ELSE IF heartbeatAge >= config.timeoutMs
    THEN [isStale |-> TRUE, ageMs |-> heartbeatAge]
    ELSE [isStale |-> FALSE]

evaluateHeartbeatHealth(lastHeartbeat, config, nowMs) ==
    LET heartbeatAge == nowMs - lastHeartbeat IN
    IF lastHeartbeat = NULL THEN [isStale |-> FALSE]
    ELSE IF heartbeatAge > config.timeoutMs
    THEN [isStale |-> TRUE, ageMs |-> heartbeatAge]
    ELSE [isStale |-> FALSE]

\* ---- the calls exercised: arguments around every limit the functions compare with
Ages(limit) == {0, 1, limit - 1, limit, limit + 1}

TimesBefore(nowMs, limits) == {nowMs - a : a \in UNION {Ages(l) : l \in limits}}

\* the result of a call that has not been made yet
Pending == [pending |-> TRUE]

CircuitBreakerConfigs ==
    {DEFAULT_CIRCUIT_BREAKER_CONFIG, [threshold |-> 1, windowMs |-> READY_WAIT_MS]}

CircuitBreakerCalls ==
    {[fn |-> "evaluateCircuitBreaker",
      args |-> [state |-> [failureCount |-> f, lastFailureTime |-> l],
                config |-> c, now |-> EpochNow],
      out |-> Pending] :
        f \in 0..MaxFailures, c \in CircuitBreakerConfigs,
        l \in {0} \cup TimesBefore(EpochNow, {CIRCUIT_BREAKER_WINDOW_MS, READY_WAIT_MS})}

SpawnConfigs ==
    {DEFAULT_SPAWN_CONFIG, [cooldownMs |-> READY_WAIT_MS, readyWaitMs |-> SPAWN_COOLDOWN_MS]}

SpawnDecisionCalls ==
    {[fn |-> "evaluateSpawnDecision",
      args |-> [state |-> [status |-> st, createdAt |-> cr, snapshotImageId |-> img,
                           hasActiveWebSocket |-> ws],
                config |-> c, now |-> EpochNow, isSpawningInMemory |-> mem],
      out |-> Pending] :
        st \in SandboxStatuses, img \in 0..MaxImages, ws \in BOOLEAN, mem \in BOOLEAN,
        c \in SpawnConfigs,
        cr \in {0} \cup TimesBefore(EpochNow, {SPAWN_COOLDOWN_MS, READY_WAIT_MS})}

InactivityConfigs ==
    {DEFAULT_INACTIVITY_CONFIG,
     [timeoutMs |-> READY_WAIT_MS, extensionMs |-> SPAWN_COOLDOWN_MS,
      minCheckIntervalMs |-> SPAWN_COOLDOWN_MS]}

InactivityCalls ==
    {[fn |-> "evaluateInactivityTimeout",
      args |-> [state |-> [lastActivity |-> la, status |-> st, connectedClientCount |-> n],
                config |-> c, now |-> EpochNow],
      out |-> Pending] :
        st \in SandboxStatuses, n \in 0..MaxClientCount, c \in InactivityConfigs,
        la \in {NULL} \cup TimesBefore(EpochNow, {INACTIVITY_TIMEOUT_MS, READY_WAIT_MS,
                                                  INACTIVITY_TIMEOUT_MS - MIN_CHECK_MS,
                                                  READY_WAIT_MS - SPAWN_COOLDOWN_MS})}

HeartbeatConfigs == {DEFAULT_HEARTBEAT_CONFIG, [timeoutMs |-> SPAWN_COOLDOWN_MS]}

HeartbeatCalls ==
    {[fn |-> "evaluateHeartbeatHealth",
      args |-> [lastHeartbeat |-> hb, config |-> c, now |-> EpochNow],
      out |-> Pending] :
        c \in HeartbeatConfigs,
        hb \in {NULL} \cup TimesBefore(EpochNow, {HEARTBEAT_TIMEOUT_MS, SPAWN_COOLDOWN_MS})}

hubVars ==
    <<now, ticks, sandbox, messages, sockets, clients, sandboxWs, isSpawningSandbox,
      alarmAt, calls, snaps, nextTok, bcast, toSandbox, resp, lastStatus, issued,
      prompted, env, failedRestores, participants, session, artifacts, pushes,
      pendingPushResolvers>>

sessionVars == <<hubVars, storeVars, d1Vars>>

EvaluateCircuitBreaker ==
    /\ decision.fn = "evaluateCircuitBreaker"
    /\ decision.out = Pending
    /\ decision' = [decision EXCEPT !.out =
                       evaluateCircuitBreaker(decision.args.state, decision.args.config,
                                              decision.args.now)]
    /\ UNCHANGED sessionVars

EvaluateSpawnDecision ==
    /\ decision.fn = "evaluateSpawnDecision"
    /\ decision.out = Pending
    /\ decision' = [decision EXCEPT !.out =
                       evaluateSpawnDecision(decision.args.state, decision.args.config,
                                             decision.args.now,
                                             decision.args.isSpawningInMemory)]
    /\ UNCHANGED sessionVars

EvaluateInactivityTimeout ==
    /\ decision.fn = "evaluateInactivityTimeout"
    /\ decision.out = Pending
    /\ decision' = [decision EXCEPT !.out =
                       evaluateInactivityTimeout(decision.args.state, decision.args.config,
                                                 decision.args.now)]
    /\ UNCHANGED sessionVars

EvaluateHeartbeatHealth ==
    /\ decision.fn = "evaluateHeartbeatHealth"
    /\ decision.out = Pending
    /\ decision' = [decision EXCEPT !.out =
                       evaluateHeartbeatHealth(decision.args.lastHeartbeat,
                                               decision.args.config, decision.args.now)]
    /\ UNCHANGED sessionVars

InitDecisions ==
    /\ InitSession
    /\ decision \in CircuitBreakerCalls \cup SpawnDecisionCalls
                        \cup InactivityCalls \cup HeartbeatCalls

NextDecisions ==
    \/ EvaluateCircuitBreaker
    \/ EvaluateSpawnDecision
    \/ EvaluateInactivityTimeout
    \/ EvaluateHeartbeatHealth

SpecDecisions == InitDecisions /\ [][NextDecisions]_vars

\* ------------------------------------------------------ the secrets store
\* RepoSecretsStore, for one repository.  A key is its spelling in upper case
\* (name), whether it is written with lower-case letters, and its length; a
\* value is its length in bytes as TextEncoder counts it.
Key(name, lower) == [name |-> name, lower |-> lower, length |-> Len(name)]

RESERVED_KEYS ==
    {Key(name, FALSE) :
        name \in {"PYTHONUNBUFFERED", "SANDBOX_ID", "CONTROL_PLANE_URL", "SANDBOX_AUTH_TOKEN",
                   "REPO_OWNER", "REPO_NAME", "GITHUB_APP_TOKEN", "SESSION_CONFIG",
                   "RESTORED_FROM_SNAPSHOT", "OPENCODE_CONFIG_CONTENT", "ANTHROPIC_API_KEY",
                   "OPENAI_API_KEY", "GOOGLE_API_KEY", "PATH", "HOME", "USER", "SHELL",
                   "TERM", "PWD", "LANG"}}

\* /^[A-Za-z_][A-Za-z0-9_]*$/: of the names of the model, 1BAD does not match
VALID_KEY_PATTERN(key) == key.name # "1BAD"

\* RepoSecretsStore.normalizeKey: toUpperCase()
normalizeKey(key) == [key EXCEPT !.lower = FALSE]

\* (mutation) the reserved set is not consulted
validateKey_AllowReserved(key) ==
    IF key.name = "" \/ key.length > MAX_KEY_LENGTH THEN "Key too long or empty"
    ELSE IF ~VALID_KEY_PATTERN(key) THEN "Key must match"
    ELSE "ok"

\* RepoSecretsStore.validateKey: "ok", or the message of the error it throws
validateKey(key) ==
    IF key.name = "" \/ key.length > MAX_KEY_LENGTH THEN "Key too long or empty"
    ELSE IF ~VALID_KEY_PATTERN(key) THEN "Key must match"
    ELSE IF normalizeKey(key) \in RESERVED_KEYS THEN "Key is reserved"
    ELSE "ok"

\* RepoSecretsStore.validateValue
validateValue(bytes) == IF bytes > MAX_VALUE_SIZE THEN "Value exceeds" ELSE "ok"

\* the keys KEY_a .. KEY_b, written in lower or in upper case
Keys(a, b, lower) == {Key("KEY_" \o ToString(n), lower) : n \in a..b}

\* The secrets a call can carry: a set of keys, each with a value of the same
\* size.  As many keys as fill the total with values of the largest size, in
\* two disjoint sets; one key more than that; as many keys as a repository can
\* have; one key beyond those; a reserved key in either case along with another
\* key; a key that does not match the pattern; a key that is too long.
SecretsInputs ==
    LET full == MAX_TOTAL_VALUE_SIZE \div MAX_VALUE_SIZE
        keySets == {Keys(1, full, TRUE), Keys(full + 1, 2 * full, FALSE),
                    Keys(1, full + 1, FALSE),
                    Keys(1, MAX_SECRETS_PER_REPO, FALSE),
                    Keys(MAX_SECRETS_PER_REPO + 1, MAX_SECRETS_PER_REPO + 1, FALSE),
                    {Key("PATH", FALSE), Key("KEY_1", FALSE)},
                    {Key("HOME", TRUE), Key("KEY_1", FALSE)},
                    {Key("1BAD", FALSE)},
                    {[Key("KEY_1", FALSE) EXCEPT !.length = MAX_KEY_LENGTH + 1]}}
    IN [keys : keySets, bytes : {1, MAX_VALUE_SIZE, MAX_VALUE_SIZE + 1}]

\* what setSecrets throws in its loop over the entries and in the check of the
\* total that follows it, "ok" if nothing
validateSecrets(secrets) ==
    IF \E key \in secrets.keys : validateKey(normalizeKey(key)) # "ok"
    THEN "validation_error"
    ELSE IF validateValue(secrets.bytes) # "ok" THEN "validation_error"
    ELSE IF Cardinality(secrets.keys) * secrets.bytes > MAX_TOTAL_VALUE_SIZE
    THEN "validation_error"
    ELSE "ok"

\* RepoSecretsStore.setSecrets up to the awaited SELECT of the existing keys
SetSecrets ==
    \E secrets \in SecretsInputs :
        /\ Len(setSecretsCalls) < MaxSetSecrets
        /\ IF validateSecrets(secrets) = "ok"
           THEN /\ setSecretsCalls' =
                      Append(setSecretsCalls,
                             [normalized |-> {normalizeKey(key) : key \in secrets.keys},
                              bytes |-> secrets.bytes, at |-> "select", isNew |-> {}])
                /\ setSecretsResult' = [outcome |-> "started", keys |-> secrets.keys]
           ELSE /\ setSecretsCalls' = setSecretsCalls
                /\ setSecretsResult' = [outcome |-> "validation_error", keys |-> secrets.keys]
        /\ UNCHANGED <<hubVars, d1Vars, repo_secrets, decision>>

\* setSecrets after the SELECT returned, up to the awaited batch
SelectReturn ==
    \E i \in DOMAIN setSecretsCalls :
        LET call == setSecretsCalls[i]
            existingKeySet == {row.key : row \in repo_secrets}
            netNew == Cardinality(call.normalized \ existingKeySet)
        IN /\ call.at = "select"
           /\ IF Cardinality(existingKeySet) + netNew > MAX_SECRETS_PER_REPO
              THEN /\ setSecretsCalls' = RemoveAt(setSecretsCalls, i)
                   /\ setSecretsResult' = [outcome |-> "validation_error",
                                            keys |-> call.normalized]
              ELSE /\ setSecretsCalls' =
                         [setSecretsCalls EXCEPT ![i].at = "batch",
                                                 ![i].isNew = call.normalized \ existingKeySet]
                   /\ setSecretsResult' = [outcome |-> "checked", keys |-> call.normalized]
           /\ UNCHANGED <<hubVars, d1Vars, repo_secrets, decision>>

\* setSecrets after db.batch returned: INSERT ... ON CONFLICT(repo_id, key) DO
\* UPDATE for every key of the call
BatchReturn ==
    \E i \in DOMAIN setSecretsCalls :
        LET call == setSecretsCalls[i]
        IN /\ call.at = "batch"
           /\ repo_secrets' = {row \in repo_secrets : row.key \notin call.normalized}
                                  \cup {[key |-> key, bytes |-> call.bytes] :
                                           key \in call.normalized}
           /\ setSecretsCalls' = RemoveAt(setSecretsCalls, i)
           /\ setSecretsResult' = [outcome |-> "ok", keys |-> call.normalized]
           /\ UNCHANGED <<hubVars, d1Vars, decision>>

NextSecrets ==
    \/ SetSecrets
    \/ SelectReturn
    \/ BatchReturn

SpecSecrets == Init /\ [][NextSecrets]_vars

\* ---------------------------------------------------------- scenarios
\* The whole machine is too large to enumerate with every handler and the clock
\* together, so each group of properties is checked on the handlers it is about,
\* within its own bounds.  A step that would pass a bound is not taken.
Bounded(nSockets, nSpawns, nTicks) ==
    /\ Len(sockets') <= nSockets
    /\ nextTok' <= nSpawns + 1
    /\ ticks' <= nTicks

\* ... and the owner stays the only participant, with one WebSocket token
Within(nSockets, nSpawns, nTicks) ==
    /\ Bounded(nSockets, nSpawns, nTicks)
    /\ Len(participants') = 1
    /\ participants'[1].ws_auth_token \in {NULL, hashToken(1)}
    /\ participants'[1].github_access_token_encrypted = Encrypted
    /\ participants'[1].github_token_expires_at = NULL

\* the prompt queue: enqueue, connect, disconnect, complete, over time
InQueue ==
    /\ Within(MaxSockets, QueueSpawns, QueueTicks)
    /\ Len(sockets') + ticks' <= QueueEvents

NextQueue ==
    \/ Tick /\ InQueue
    \/ HttpPromptBy(Owner) /\ InQueue
    \/ SandboxUpgrade /\ InQueue
    \/ SandboxSocketClosed /\ InQueue
    \/ ExecutionComplete /\ InQueue
    \/ SpawnReturn /\ InQueue
    \/ SnapshotReturn /\ InQueue

SpecQueue == Init /\ [][NextQueue]_vars

\* sandbox connections: create, snapshot, restore, and the upgrades that are
\* accepted (a refused upgrade changes nothing but the answer), connect and reconnect
InConn == Within(MaxSockets, ConnSpawns, MaxTicks)

NextConn ==
    \/ HttpPromptBy(Owner) /\ InConn
    \/ SandboxUpgrade /\ InConn /\ resp'.code = 101
    \/ SandboxSocketClosed /\ InConn
    \/ ExecutionComplete /\ InConn
    \/ SpawnReturn /\ InConn
    \/ RestoreReturn /\ InConn
    \/ SnapshotReturn /\ InConn

SpecConn == Init /\ [][NextConn]_vars

\* snapshots: taken after a completion or by the inactivity alarm, with the
\* handlers that can run while the snapshot call is in flight
InSnap == Within(SnapSockets, SnapSpawns, SnapTicks) /\ Len(messages') <= SnapMsgs

NextSnap ==
    \/ Tick /\ InSnap
    \/ HttpPromptBy(Owner) /\ InSnap
    \/ SandboxUpgrade /\ InSnap
    \/ SandboxSocketClosed /\ InSnap
    \/ ExecutionComplete /\ InSnap
    \/ SpawnReturn /\ InSnap
    \/ RestoreReturn /\ InSnap
    \/ SnapshotReturn /\ InSnap
    \/ Alarm /\ InSnap

SpecSnap == Init /\ [][NextSnap]_vars

\* the spawn circuit breaker: spawn attempts by prompts and typing, failing
\* provider calls, over time; no sandbox ever connects
InBreaker == Within(0, BreakerSpawns, MaxTicks) /\ Len(clients') <= BreakerClients

NextBreaker ==
    \/ Tick /\ InBreaker
    \/ HttpPromptBy(Owner) /\ InBreaker
    \/ WsPrompt /\ InBreaker
    \/ Typing /\ InBreaker
    \/ ClientConnect /\ InBreaker
    \/ ClientSubscribe /\ InBreaker
    \/ GenerateWsTokenFor(Owner, {NULL}, {NULL}) /\ InBreaker
    \/ ClientDisconnect /\ InBreaker
    \/ SpawnReturn /\ InBreaker

SpecBreaker == Init /\ [][NextBreaker]_vars

\* the client sockets: accept, subscribe, the authentication deadline, prompts,
\* close, hibernation, over time; no sandbox ever connects
InAuth == Within(0, AuthSpawns, MaxTicks)

NextAuth ==
    \/ Tick /\ InAuth
    \/ ClientConnect /\ InAuth
    \/ ClientSubscribe /\ InAuth
    \/ GenerateWsTokenFor(Owner, {NULL}, {NULL}) /\ InAuth
    \/ AuthDeadline /\ InAuth
    \/ WsPrompt /\ InAuth
    \/ SpawnReturn /\ InAuth
    \/ ClientDisconnect /\ InAuth
    \/ Hibernate /\ InAuth

SpecAuth == Init /\ [][NextAuth]_vars

\* broadcasts: client sockets that are open, closing or failing, with the
\* handlers that broadcast, among them sandbox events that arrive while a
\* provider call is in flight; no sandbox ever connects
InBroadcast ==
    /\ Within(0, BroadcastSpawns, 0)
    /\ Len(messages') <= BroadcastMsgs

NextBroadcast ==
    \/ ClientConnect /\ InBroadcast
    \/ ClientSubscribe /\ InBroadcast
    \/ GenerateWsTokenFor(Owner, {NULL}, {NULL}) /\ InBroadcast
    \/ ClientBreaks /\ InBroadcast
    \/ ClientDisconnect /\ InBroadcast
    \/ HttpPromptBy(Owner) /\ InBroadcast
    \/ ExecutionComplete /\ InBroadcast
    \/ Heartbeat /\ InBroadcast
    \/ SpawnReturn /\ InBroadcast

SpecBroadcast == Init /\ [][NextBroadcast]_vars

\* the alarm: inactivity with and without client sockets, heartbeats and their
\* timeout, with the snapshot calls and the handlers that run around them
InAlarm ==
    /\ Within(AlarmSockets, AlarmSpawns, AlarmTicks)
    /\ Len(messages') <= AlarmMsgs
    /\ Len(clients') <= AlarmClients

NextAlarm ==
    \/ Tick /\ InAlarm
    \/ HttpPromptBy(Owner) /\ InAlarm
    \/ SandboxUpgrade /\ InAlarm
    \/ SandboxSocketClosed /\ InAlarm
    \/ ExecutionComplete /\ InAlarm
    \/ Heartbeat /\ InAlarm
    \/ SpawnReturn /\ InAlarm
    \/ SnapshotReturn /\ InAlarm
    \/ Alarm /\ InAlarm
    \/ ClientConnect /\ InAlarm
    \/ ClientDisconnect /\ InAlarm

SpecAlarm == Init /\ [][NextAlarm]_vars

\* the participants: rows added by add-participant, ws-token and prompts, client
\* sockets that subscribe, lose their entry in memory and send prompts; no
\* sandbox ever connects
InParticipants ==
    /\ Bounded(0, ParticipantSpawns, 0)
    /\ Len(messages') <= ParticipantMsgs
    /\ Len(clients') <= ParticipantClients

NextParticipants ==
    \/ AddParticipant /\ InParticipants
    \/ GenerateWsTokenFor(Users, {NULL}, {NULL}) /\ InParticipants
    \/ HttpPrompt /\ InParticipants
    \/ WsPrompt /\ InParticipants
    \/ ClientConnect /\ InParticipants
    \/ ClientSubscribe /\ InParticipants
    \/ ClientDisconnect /\ InParticipants
    \/ SpawnReturn /\ InParticipants
    \/ Hibernate /\ InParticipants

SpecParticipants == Init /\ [][NextParticipants]_vars

\* pushes: create-pr requests of the owner that wait for the push of their
\* branch, push events and timers, over time
InPush ==
    /\ Within(PushSockets, PushSpawns, PushTicks)
    /\ Len(messages') <= PushMsgs

NextPush ==
    \/ Tick /\ InPush
    \/ HttpPromptBy(Owner) /\ InPush
    \/ SpawnReturn /\ InPush
    \/ SandboxUpgrade /\ InPush
    \/ CreatePR /\ InPush
    \/ RepositoryReturn /\ InPush
    \/ PushEvent /\ InPush
    \/ PushTimeout /\ InPush
    \/ CreatePullRequestReturn /\ InPush

SpecPush == Init /\ [][NextPush]_vars

\* create-pr: a prompt in processing for a user with or without a usable host
\* token, one request at a time, with or without a sandbox socket, over time
InCreatePR ==
    /\ Bounded(PushSockets, PushSpawns, PushTicks)
    /\ Len(messages') <= PushMsgs
    /\ Len(participants') <= PushParticipants
    /\ \A i \in DOMAIN participants' :
          participants'[i].ws_auth_token \in {NULL, hashToken(1)}
    /\ Len(pushes') <= CreatePRRequests

NextCreatePR ==
    \/ Tick /\ InCreatePR
    \/ HttpPrompt /\ InCreatePR
    \/ GenerateWsTokenFor(Owner, {NULL, Undecryptable}, ExpiryTimes) /\ InCreatePR
    \/ SpawnReturn /\ InCreatePR
    \/ SandboxUpgrade /\ InCreatePR
    \/ SandboxSocketClosed /\ InCreatePR
    \/ CreatePR /\ InCreatePR
    \/ RepositoryReturn /\ InCreatePR
    \/ PushEvent /\ InCreatePR
    \/ PushTimeout /\ InCreatePR
    \/ CreatePullRequestReturn /\ InCreatePR

SpecCreatePR == Init /\ [][NextCreatePR]_vars

\* a stalled queue: prompts, a sandbox that connects, is sent prompts, reports
\* their end and goes away, typing that warms a new sandbox.  Every party goes
\* on: provider calls return, the sandbox connects and reports what it was sent.
InStall ==
    /\ Within(StallSockets, StallSpawns, 0)
    /\ Len(clients') <= StallClients

NextStall ==
    \/ HttpPromptBy(Owner) /\ InStall
    \/ ClientConnect /\ InStall
    \/ Typing /\ InStall
    \/ SandboxUpgrade /\ InStall
    \/ SandboxSocketClosed /\ InStall
    \/ SandboxCompletes /\ InStall
    \/ SpawnReturn /\ InStall
    \/ RestoreReturn /\ InStall
    \/ SnapshotReturn /\ InStall

\* the sandbox a provider call started can connect: its token is the persisted
\* one and no socket has presented it
CanConnect ==
    /\ sandbox.status \notin {"stopped", "stale"}
    /\ sandbox.auth_token # NULL
    /\ \A w \in DOMAIN sockets : sockets[w].presented # sandbox.auth_token
    /\ Len(sockets) < StallSockets

\* a connected sandbox has a prompt to report the end of: it was sent the prompt
\* of a message that is processing
CanReport ==
    \E w \in OpenSockets, i \in DOMAIN messages :
        messages[i].status = "processing" /\ <<messages[i].id, sockets[w].presented>> \in prompted

\* what goes on happening: provider calls return and the user goes on typing
\* (weak fairness of the handlers), the sandbox a call started connects and a
\* connected sandbox reports the end of the prompts it was sent (weak fairness
\* with the enabling condition spelled out: CanConnect, CanReport)
StallFairness ==
    /\ WF_vars(SpawnReturn /\ InStall)
    /\ WF_vars(RestoreReturn /\ InStall)
    /\ WF_vars(SnapshotReturn /\ InStall)
    /\ WF_vars(Typing /\ InStall)
    /\ []<>(~CanConnect) \/ []<><<resp'.op = "upgrade" /\ resp'.code = 101>>_vars
    /\ []<>(~CanReport) \/ []<><<resp'.op = "execution_complete">>_vars

SpecStall == Init /\ [][NextStall]_vars /\ StallFairness

\* the inactivity timeout with prompts around it: the sandbox connects, works
\* and falls idle, the alarm stops it, and prompts arrive at any time
InWindow == Within(AlarmSockets, AlarmSpawns, AlarmTicks)

NextWindow ==
    \/ Tick /\ InWindow
    \/ HttpPromptBy(Owner) /\ InWindow
    \/ SandboxUpgrade /\ InWindow
    \/ ExecutionComplete /\ InWindow
    \/ SpawnReturn /\ InWindow
    \/ SnapshotReturn /\ InWindow
    \/ Alarm /\ InWindow

SpecWindow == Init /\ [][NextWindow]_vars

\* client messages: sockets that have and have not subscribed send typing,
\* stop, prompt and presence messages, around a sandbox that is started and
\* connects
InClientMsgs ==
    /\ Within(ClientMsgSockets, ClientMsgSpawns, 0)
    /\ Len(messages') <= ClientMsgMsgs

NextClientMsgs ==
    \/ ClientConnect /\ InClientMsgs
    \/ GenerateWsTokenFor(Owner, {NULL}, {NULL}) /\ InClientMsgs
    \/ ClientSubscribe /\ InClientMsgs
    \/ Typing /\ InClientMsgs
    \/ Stop /\ InClientMsgs
    \/ WsPrompt /\ InClientMsgs
    \/ Presence /\ InClientMsgs
    \/ SpawnReturn /\ InClientMsgs
    \/ SandboxUpgrade /\ InClientMsgs
    \/ Hibernate /\ InClientMsgs

SpecClientMsgs == Init /\ [][NextClientMsgs]_vars

\* ------------------------------------------------------------ properties

ProcessingSet(msgs) == {i \in DOMAIN msgs : msgs[i].status = "processing"}

\* the steps in which the queue driver runs
DriverOps == {"prompt", "ws_prompt", "upgrade", "execution_complete"}

\* C1: at most one message has status processing, whatever the interleaving of
\* enqueues, sandbox connections, execution_complete events and queue re-drives.
C1_AtMostOneProcessing == Cardinality(ProcessingSet(messages)) <= 1

\* C1 witness: a prompt was enqueued and the driver ran while a sandbox socket was
\* open and another message was processing; the new prompt stayed pending.
C1_Witness ==
    /\ resp.op = "prompt"
    /\ OpenSockets # {}
    /\ Cardinality(ProcessingSet(messages)) = 1
    /\ PendingOldest(messages) # {}

\* C2: a message's status only ever changes pending -> processing or
\* processing -> completed / failed, also when an execution_complete event names
\* a message that is not the one processing.
C2_OnlyLegalTransitions ==
    [][\A i \in DOMAIN messages :
          messages'[i].status # messages[i].status
              => <<messages[i].status, messages'[i].status>>
                     \in {<<"pending", "processing">>, <<"processing", "completed">>,
                          <<"processing", "failed">>}]_vars

\* the sandbox_status values clients are told, in order: the last one before the
\* step, then those of the step
StatusesSeen(last, b) ==
    LET st == SelectSeq(b, LAMBDA m : m.type = "sandbox_status")
    IN <<last>> \o [k \in 1..Len(st) |-> st[k].arg]

\* C3: clients are never told sandbox_status = ready twice without a non-ready
\* sandbox_status in between (accepting a sandbox connection replaces the previous
\* one).  Stated for the sessions that have spawned a sandbox, whose connections
\* are checked against a persisted token.
C3_NoRepeatedReady ==
    [][sandbox.auth_token # NULL
          => LET seen == StatusesSeen(lastStatus, bcast')
             IN \A k \in 1..(Len(seen) - 1) :
                   ~(seen[k] = "ready" /\ seen[k + 1] = "ready")]_vars

\* C4: a sandbox upgrade is accepted only if the status is neither stopped nor
\* stale, a token is persisted and the Authorization header is "Bearer " + that
\* token, and an id is persisted and X-Sandbox-ID equals it.
C4_AcceptOnlyAuthenticated ==
    [][(resp'.op = "upgrade" /\ resp'.code = 101)
          => /\ sandbox.status \notin {"stopped", "stale"}
             /\ sandbox.auth_token # NULL
             /\ sockets'[resp'.ws].presented = sandbox.auth_token
             /\ sandbox.modal_sandbox_id # NULL
             /\ sockets'[resp'.ws].sid = sandbox.modal_sandbox_id]_vars

\* C5: every sandbox connection accepted with the token of a provider call carries
\* that call's sandbox id, and token and id were in the sandbox row, with status
\* spawning and created_at = now, when the create / restore call was issued.
C5_PersistedBeforeCall ==
    \A w \in DOMAIN sockets : \A c \in issued :
        sockets[w].presented = c.tok => (c.persisted /\ sockets[w].sid = c.id)

\* C5 witness: a sandbox started by a restore call has connected with its token.
C5_Witness ==
    \E w \in DOMAIN sockets : \E c \in issued :
        sockets[w].presented = c.tok /\ c.kind = "restore"

\* the snapshot calls whose return the step is
Returned(i) ==
    /\ resp'.op = "snapshot_return"
    /\ i \in DOMAIN snaps
    /\ snaps' = RemoveAt(snaps, i)

C7_TerminalNotReplaced ==
    [][(resp'.op = "snapshot_return" /\ sandbox.status \in TerminalStatuses)
          => sandbox'.status \in TerminalStatuses]_vars

\* C8: the message the driver dispatches is the pending one with the smallest
\* created_at, and among equal created_at the one with the smallest id.
C8_OldestThenId ==
    [][resp'.dispatched # NULL
          => \A i, j \in DOMAIN messages' :
                (messages'[i].id = resp'.dispatched /\ messages'[j].status = "pending")
                    => \/ messages'[i].created_at < messages'[j].created_at
                       \/ /\ messages'[i].created_at = messages'[j].created_at
                          /\ messages'[i].id < messages'[j].id]_vars

\* C9: (a) when a prompt is enqueued with no message processing and no sandbox
\* socket open, the driver calls spawnSandbox and dispatches nothing: every pending
\* message, the new one included, stays pending; likewise when the driver runs
\* after an execution_complete event and finds a pending message, none processing
\* and no sandbox socket open; (b) when a sandbox connection is accepted with
\* messages pending and none processing, an oldest pending message becomes
\* processing and a prompt command with its id is sent on the new socket.
C9_SpawnThenDispatch ==
    [][/\ (resp'.op \in {"prompt", "ws_prompt"} /\ ~HasProcessing(messages)
              /\ OpenSockets = {})
          => /\ resp'.decision # "none"
             /\ resp'.dispatched = NULL
             /\ toSandbox' = <<>>
             /\ \A i \in DOMAIN messages' :
                   (i \notin DOMAIN messages \/ messages[i].status = "pending")
                       => messages'[i].status = "pending"
       /\ (resp'.op = "execution_complete" /\ OpenSockets = {}
              /\ ~HasProcessing(messages') /\ PendingOldest(messages') # {})
          => /\ resp'.decision # "none"
             /\ resp'.dispatched = NULL
             /\ toSandbox' = <<>>
       /\ (resp'.op = "upgrade" /\ resp'.code = 101 /\ ~HasProcessing(messages)
              /\ PendingOldest(messages) # {})
          => \E i \in PendingOldest(messages) :
                /\ messages'[i].status = "processing"
                /\ resp'.dispatched = messages[i].id
                /\ toSandbox' = <<[type |-> "prompt", messageId |-> messages[i].id,
                                   ws |-> Len(sockets')]>>]_vars

\* C9 witness: the sandbox of a create call has connected and the pending prompt
\* was dispatched to it.
C9_Witness ==
    /\ resp.op = "upgrade"
    /\ resp.dispatched # NULL
    /\ \E c \in issued : c.kind = "create" /\ sockets[resp.ws].presented = c.tok

\* C10: every failed createSandbox call adds one to the failure counter and stamps
\* the failure time; the counter goes down only when a call succeeds or when an
\* attempt finds the last failure a breaker window or more ago; and with three or
\* more failures counted, the last less than the window ago, a spawn attempt
\* makes no provider call, leaves the status unchanged and broadcasts a
\* sandbox_error saying that spawning is temporarily disabled, with a positive
\* number of seconds to wait.
C10_BreakerBlocks ==
    [][/\ (resp'.op = "spawn_return" /\ resp'.decision # "ok")
          => /\ sandbox'.spawn_failure_count = sandbox.spawn_failure_count + 1
             /\ sandbox'.last_spawn_failure = now
       /\ sandbox'.spawn_failure_count < sandbox.spawn_failure_count
          => \/ resp'.op = "spawn_return" /\ resp'.decision = "ok"
             \/ now - sandbox.last_spawn_failure >= CIRCUIT_BREAKER_WINDOW_MS
       /\ (/\ resp'.op \in DriverOps \cup {"typing"}
           /\ resp'.decision # "none"
           /\ sandbox.spawn_failure_count >= CIRCUIT_BREAKER_THRESHOLD
           /\ now - sandbox.last_spawn_failure < CIRCUIT_BREAKER_WINDOW_MS)
          => /\ resp'.decision = "blocked"
             /\ calls' = calls
             /\ nextTok' = nextTok
             /\ sandbox'.status = sandbox.status
             /\ \E k \in DOMAIN bcast' :
                   /\ bcast'[k].type = "sandbox_error"
                   /\ bcast'[k].arg.disabled
                   /\ bcast'[k].arg.waitSeconds > 0]_vars

\* C10 witness: three provider calls were made and failed one after the other,
\* and the attempt after them was blocked.
C10_Witness ==
    /\ resp.decision = "blocked"
    /\ nextTok = CIRCUIT_BREAKER_THRESHOLD + 1
    /\ sandbox.spawn_failure_count = CIRCUIT_BREAKER_THRESHOLD
    /\ calls = <<>>

\* C12 as stated: when createSandbox fails, a permanent error adds one to
\* spawn_failure_count and stamps last_spawn_failure, a transient error leaves both
\* unchanged; either way the status becomes failed and a sandbox_error is
\* broadcast; a successful call resets the counter to 0.
C12_TransientNotCounted ==
    [][resp'.op = "spawn_return"
          => /\ resp'.decision = "permanent"
                => /\ sandbox'.spawn_failure_count = sandbox.spawn_failure_count + 1
                   /\ sandbox'.last_spawn_failure = now
             /\ resp'.decision = "transient"
                => /\ sandbox'.spawn_failure_count = sandbox.spawn_failure_count
                   /\ sandbox'.last_spawn_failure = sandbox.last_spawn_failure
             /\ resp'.decision # "ok"
                => /\ sandbox'.status = "failed"
                   /\ \E k \in DOMAIN bcast' : bcast'[k].type = "sandbox_error"
             /\ resp'.decision = "ok" => sandbox'.spawn_failure_count = 0]_vars

\* the circuit breaker is open: the threshold reached, the last failure inside
\* the window
BreakerOpen ==
    /\ sandbox.spawn_failure_count >= CIRCUIT_BREAKER_THRESHOLD
    /\ now - sandbox.last_spawn_failure < CIRCUIT_BREAKER_WINDOW_MS

\* a prompt is enqueued with no sandbox socket open, a terminal status, a snapshot
\* stored and the breaker not open
RestoreCase ==
    /\ resp'.op \in {"prompt", "ws_prompt"}
    /\ OpenSockets = {}
    /\ sandbox.status \in TerminalStatuses
    /\ sandbox.snapshot_image_id # NULL
    /\ ~BreakerOpen

\* the step makes one provider call, a restore of the stored image, and no
\* createSandbox call; the status is spawning
RestoreEffect ==
    /\ resp'.decision = "restore"
    /\ Len(calls') = Len(calls) + 1
    /\ \A i \in DOMAIN calls : calls'[i] = calls[i]
    /\ calls'[Len(calls')].kind = "restore"
    /\ calls'[Len(calls')].image = sandbox.snapshot_image_id
    /\ sandbox'.status = "spawning"

\* when the restore call returns: connecting and a sandbox_restored broadcast on
\* success, failed otherwise
RestoreOutcome ==
    resp'.op = "restore_return"
        => /\ resp'.decision = "ok"
              => /\ sandbox'.status = "connecting"
                 /\ \E k \in DOMAIN bcast' : bcast'[k].type = "sandbox_restored"
           /\ resp'.decision # "ok" => sandbox'.status = "failed"

Evaluated(fn) == decision.fn = fn /\ decision.out # Pending

\* C11: evaluateCircuitBreaker returns proceed with reset exactly when
\* failureCount > 0 and now - lastFailureTime >= windowMs; otherwise block, with
\* waitTimeMs = windowMs - (now - lastFailureTime), exactly when
\* failureCount >= threshold; otherwise proceed without reset.  At
\* lastFailureTime = now - windowMs the decision is never block, and it is
\* proceed with reset when there is a failure to reset.
C11_CircuitBreakerDecision ==
    Evaluated("evaluateCircuitBreaker")
        => LET state == decision.args.state
               config == decision.args.config
               elapsed == decision.args.now - state.lastFailureTime
               reset == state.failureCount > 0 /\ elapsed >= config.windowMs
               block == ~reset /\ state.failureCount >= config.threshold
           IN /\ reset => decision.out = [shouldProceed |-> TRUE, shouldReset |-> TRUE]
              /\ block => decision.out = [shouldProceed |-> FALSE, shouldReset |-> FALSE,
                                          waitTimeMs |-> config.windowMs - elapsed]
              /\ (~reset /\ ~block)
                    => decision.out = [shouldProceed |-> TRUE, shouldReset |-> FALSE]
              /\ elapsed = config.windowMs
                    => /\ decision.out.shouldProceed
                       /\ state.failureCount > 0 => decision.out.shouldReset

\* C11 witness: the call with the threshold reached and the last failure exactly a
\* window ago was made, and it said proceed and reset.
C11_Witness ==
    /\ Evaluated("evaluateCircuitBreaker")
    /\ decision.args.state.failureCount >= decision.args.config.threshold
    /\ decision.args.now - decision.args.state.lastFailureTime = decision.args.config.windowMs
    /\ decision.out = [shouldProceed |-> TRUE, shouldReset |-> TRUE]

\* C13: evaluateSpawnDecision returns the first that matches of: (1) snapshot id
\* present and status stopped, stale or failed: restore with that id; (2) status
\* spawning or connecting: skip; (3) status ready: skip with an active socket, wait
\* without one if now - createdAt < readyWaitMs; (4) now - createdAt < cooldownMs
\* and status neither failed nor stopped: wait; (5) in-memory spawning flag: skip;
\* (6) spawn.  So failed and stopped are never made to wait, and restore is decided
\* whatever the cooldown and the in-memory flag.
C13_SpawnDecisionOrder ==
    Evaluated("evaluateSpawnDecision")
        => LET state == decision.args.state
               config == decision.args.config
               age == decision.args.now - state.createdAt
               rule1 == state.snapshotImageId # NULL /\ state.status \in TerminalStatuses
               rule2 == state.status \in {"spawning", "connecting"}
               rule3skip == state.status = "ready" /\ state.hasActiveWebSocket
               rule3wait == /\ state.status = "ready"
                            /\ ~state.hasActiveWebSocket
                            /\ age < config.readyWaitMs
               rule4 == age < config.cooldownMs /\ state.status \notin {"failed", "stopped"}
               rule5 == decision.args.isSpawningInMemory
               expected == IF rule1 THEN "restore"
                           ELSE IF rule2 THEN "skip"
                           ELSE IF rule3skip THEN "skip"
                           ELSE IF rule3wait THEN "wait"
                           ELSE IF rule4 THEN "wait"
                           ELSE IF rule5 THEN "skip"
                           ELSE "spawn"
           IN /\ decision.out.action = expected
              /\ rule1 => decision.out.snapshotImageId = state.snapshotImageId
              /\ state.status \in {"failed", "stopped"} => decision.out.action # "wait"
              /\ (state.status \in {"failed", "stopped"} /\ state.snapshotImageId = NULL
                     /\ ~rule5)
                    => decision.out = [action |-> "spawn"]

\* C13 witness: two calls inside the cooldown were made: a stopped sandbox without
\* snapshot was told to spawn, or one with a snapshot and the in-memory flag set
\* was told to restore.
C13_Witness ==
    /\ Evaluated("evaluateSpawnDecision")
    /\ decision.args.now - decision.args.state.createdAt < decision.args.config.cooldownMs
    /\ decision.args.state.status = "stopped"
    /\ \/ decision.args.state.snapshotImageId = NULL /\ decision.out.action = "spawn"
       \/ decision.args.isSpawningInMemory /\ decision.out.action = "restore"

\* C16: evaluateInactivityTimeout returns schedule(minCheckIntervalMs) when the
\* status is stopped, failed or stale, when lastActivity is null, or when the
\* status is not ready or running; otherwise, with inactive = now - lastActivity:
\* extend(extensionMs, warn) if inactive >= timeoutMs with a client connected,
\* timeout with snapshot if inactive >= timeoutMs with none, and
\* schedule(max(timeoutMs - inactive, minCheckIntervalMs)) otherwise.  A scheduled
\* check is never sooner than minCheckIntervalMs.
C16_InactivityDecision ==
    Evaluated("evaluateInactivityTimeout")
        => LET state == decision.args.state
               config == decision.args.config
               inactive == decision.args.now - state.lastActivity
               unmonitored == \/ state.status \in TerminalStatuses
                              \/ state.lastActivity = NULL
                              \/ state.status \notin {"ready", "running"}
           IN /\ unmonitored
                    => decision.out = [action |-> "schedule",
                                       nextCheckMs |-> config.minCheckIntervalMs]
              /\ (~unmonitored /\ inactive >= config.timeoutMs
                     /\ state.connectedClientCount > 0)
                    => decision.out = [action |-> "extend",
                                       extensionMs |-> config.extensionMs,
                                       shouldWarn |-> TRUE]
              /\ (~unmonitored /\ inactive >= config.timeoutMs
                     /\ state.connectedClientCount = 0)
                    => decision.out = [action |-> "timeout", shouldSnapshot |-> TRUE]
              /\ (~unmonitored /\ inactive < config.timeoutMs)
                    => decision.out = [action |-> "schedule",
                                       nextCheckMs |-> Max(config.timeoutMs - inactive,
                                                           config.minCheckIntervalMs)]
              /\ decision.out.action = "schedule"
                    => decision.out.nextCheckMs >= config.minCheckIntervalMs

\* C16 witness: a ready sandbox with less than the minimum interval left before
\* its timeout was given the minimum interval.
C16_Witness ==
    /\ Evaluated("evaluateInactivityTimeout")
    /\ decision.args.state.status = "ready"
    /\ decision.args.state.lastActivity # NULL
    /\ decision.args.config.timeoutMs
           - (decision.args.now - decision.args.state.lastActivity) \in
                 1..(decision.args.config.minCheckIntervalMs - 1)
    /\ decision.out = [action |-> "schedule",
                       nextCheckMs |-> decision.args.config.minCheckIntervalMs]

\* C18: evaluateHeartbeatHealth reports stale exactly when lastHeartbeat is not
\* null and now - lastHeartbeat > timeoutMs: never for a null lastHeartbeat, not
\* at an age of exactly timeoutMs; and when stale, ageMs = now - lastHeartbeat.
C18_HeartbeatHealth ==
    Evaluated("evaluateHeartbeatHealth")
        => LET lastHeartbeat == decision.args.lastHeartbeat
               age == decision.args.now - lastHeartbeat
               stale == lastHeartbeat # NULL /\ age > decision.args.config.timeoutMs
           IN /\ decision.out.isStale = stale
              /\ stale => decision.out = [isStale |-> TRUE, ageMs |-> age]
              /\ ~stale => decision.out = [isStale |-> FALSE]

\* C18 witness: a heartbeat exactly timeoutMs old was found not stale.
C18_Witness ==
    /\ Evaluated("evaluateHeartbeatHealth")
    /\ decision.args.lastHeartbeat # NULL
    /\ decision.args.now - decision.args.lastHeartbeat = decision.args.config.timeoutMs
    /\ decision.out = [isStale |-> FALSE]

\* the execution_complete events broadcast in the step that led to the state
CompletionEvents(b) ==
    {k \in DOMAIN b : b[k].type = "sandbox_event" /\ b[k].arg.type = "execution_complete"}

\* the execution_complete event handled in a step: the one the step broadcast,
\* or the one it left with the provider call it started
EventOfStep(b, cs, cs2) ==
    {b[k].arg : k \in CompletionEvents(b)}
        \cup (IF Len(cs2) > Len(cs) THEN {cs2[Len(cs2)].cont} ELSE {})

\* C20: on an execution_complete event that carries a messageId, the message set
\* to completed (success) or failed is the one the event names, also when another
\* message is the one processing; the processing message is the one resolved only
\* when the event carries no messageId.  No other message is resolved by the step.
C20_EventIdPreferred ==
    [][resp'.op = "execution_complete"
          => \E event \in EventOfStep(bcast', calls, calls') :
                LET target == IF event.messageId # NULL THEN event.messageId
                              ELSE ProcessingId(messages)
                    status == IF event.success THEN "completed" ELSE "failed"
                IN \A i \in DOMAIN messages :
                      IF messages[i].id = target
                      THEN messages'[i].status = status
                      ELSE \/ messages'[i].status = messages[i].status
                           \/ messages'[i].status = "processing"]_vars

\* C20 witness: an event named a message, which now has the event's status, while
\* another message was processing and still is (the step dispatched nothing).
C20_Witness ==
    /\ resp.op = "execution_complete"
    /\ resp.dispatched = NULL
    /\ \E k \in CompletionEvents(bcast), i, j \in DOMAIN messages :
          /\ bcast[k].arg.messageId # NULL
          /\ messages[i].id = bcast[k].arg.messageId
          /\ messages[i].status = IF bcast[k].arg.success THEN "completed" ELSE "failed"
          /\ messages[j].status = "processing"

\* C19: when the authentication deadline of a client socket is checked (30 s or
\* more after the socket was accepted), an open socket on which no valid subscribe
\* has been handled is closed with code 4008, and a socket that subscribed
\* successfully is left as it is, whether its entry is in the in-memory client map
\* or, after hibernation, only in ws_client_mapping; no other step closes a socket
\* with code 4008.
C19_AuthDeadline ==
    [][/\ resp'.op = "auth_deadline"
          => LET ws == resp'.ws
             IN /\ clients[ws].deadline = "due"
                /\ (clients[ws].state = "open" /\ ~clients[ws].subscribed)
                      => clients'[ws].state = "closing" /\ clients'[ws].code = 4008
                /\ clients[ws].subscribed
                      => /\ clients'[ws].state = clients[ws].state
                         /\ clients'[ws].code = clients[ws].code
       /\ \A ws \in DOMAIN clients' :
             (/\ clients'[ws].code = 4008
              /\ Len(clients') = Len(clients)
              /\ clients[ws].code # 4008)
                => resp'.op = "auth_deadline" /\ resp'.ws = ws]_vars

\* C19 witness: the deadline was checked for a subscribed socket whose entry in
\* the client map was lost in hibernation, and left the socket open, while another
\* socket, never subscribed, had been closed by its deadline with code 4008.
C19_Witness ==
    /\ resp.op = "auth_deadline"
    /\ clients[resp.ws].subscribed
    /\ ~clients[resp.ws].known
    /\ clients[resp.ws].state = "open"
    /\ clients[resp.ws].deadline = "done"
    /\ \E other \in DOMAIN clients :
          /\ ~clients[other].subscribed
          /\ clients[other].state = "closing"
          /\ clients[other].code = 4008

\* the heartbeat the alarm finds is older than the heartbeat timeout
HeartbeatStale ==
    sandbox.last_heartbeat # NULL /\ now - sandbox.last_heartbeat > HEARTBEAT_TIMEOUT_MS

\* the alarm finds the sandbox ready or running, its heartbeat not stale, and the
\* last activity the inactivity timeout or more ago
InactiveAtAlarm ==
    /\ resp'.op = "alarm"
    /\ sandbox.status \in {"ready", "running"}
    /\ ~HeartbeatStale
    /\ sandbox.last_activity # NULL
    /\ now - sandbox.last_activity >= INACTIVITY_TIMEOUT_MS

\* C15: when the alarm fires with status ready or running, a heartbeat that is
\* not stale and inactivity of at least the timeout, then with one or more client
\* sockets open the sandbox is not stopped (its status, its sockets and the
\* snapshot calls are as before), a sandbox_warning is broadcast and the alarm is
\* set to now + 300 s; and an alarm writes the status stopped only when it finds
\* no client socket open.
C15_ExtendWhileClients ==
    [][/\ (InactiveAtAlarm /\ OpenClients(clients) # {})
          => /\ sandbox' = sandbox
             /\ sockets' = sockets
             /\ snaps' = snaps
             /\ \E k \in DOMAIN bcast' : bcast'[k].type = "sandbox_warning"
             /\ \A k \in DOMAIN bcast' : bcast'[k].type # "sandbox_status"
             /\ alarmAt' = now + INACTIVITY_EXTENSION_MS
       /\ (resp'.op = "alarm" /\ sandbox'.status = "stopped" /\ sandbox.status # "stopped")
          => InactiveAtAlarm /\ OpenClients(clients) = {}]_vars

\* C15 witness: an alarm found the sandbox inactive with a client socket open and
\* extended, and the sandbox socket is still open.
C15_Witness ==
    /\ resp.op = "alarm"
    /\ resp.decision = "extend"
    /\ OpenClients(clients) # {}
    /\ OpenSockets # {}
    /\ sandbox.status = "ready"
    /\ now - sandbox.last_activity >= INACTIVITY_TIMEOUT_MS
    /\ alarmAt = now + INACTIVITY_EXTENSION_MS

\* C17 as stated: when the alarm fires in a status that is not terminal with a
\* last heartbeat older than 90 s, the status becomes stale and a snapshot call
\* with reason heartbeat_timeout is started; the status is still stale when a
\* snapshot call with that reason returns; and the status stays one for which
\* sandbox connections are rejected with 410 (stale, or stopped once the sandbox
\* socket has closed) in every step that does not start a spawn or a restore.
C17_StaleUntilRespawn ==
    [][/\ (resp'.op = "alarm" /\ sandbox.status \notin TerminalStatuses /\ HeartbeatStale)
          => /\ sandbox'.status = "stale"
             /\ Len(snaps') = Len(snaps) + 1
             /\ snaps'[Len(snaps')].reason = "heartbeat_timeout"
       /\ (resp'.op = "snapshot_return" /\ resp'.decision = "keep_stale"
              /\ sandbox.status = "stale")
          => sandbox'.status = "stale"
       /\ (sandbox.status = "stale" /\ nextTok' = nextTok)
          => sandbox'.status \in {"stale", "stopped"}]_vars

\* C29 as stated: on a client typing signal, if a sandbox socket is open, or the
\* in-memory spawning flag is set, or the persisted status is spawning or
\* connecting, nothing happens: no sandbox_warming is broadcast and no spawn is
\* attempted; otherwise sandbox_warming is broadcast and a spawn is invoked.
C29_TypingSkips ==
    [][resp'.op = "typing"
          => IF \/ OpenSockets # {}
                \/ isSpawningSandbox
                \/ sandbox.status \in {"spawning", "connecting"}
             THEN /\ bcast' = <<>>
                  /\ resp'.decision = "none"
                  /\ calls' = calls
                  /\ sandbox' = sandbox
             ELSE /\ \E k \in DOMAIN bcast' : bcast'[k].type = "sandbox_warming"
                  /\ resp'.decision # "none"]_vars

\* C30 as stated: when the close event of an older sandbox socket is processed
\* after a newer sandbox connection was accepted (the newer socket is the tracked
\* one, open, and the status is ready), the state of the new connection does not
\* change: the status is still ready and the newer socket is still the tracked one.
C30_OldCloseKeepsNew ==
    [][(/\ resp'.op = "ws_close"
        /\ sandboxWs # NULL
        /\ sandboxWs # resp'.ws
        /\ sockets[sandboxWs].state = "open"
        /\ sandbox.status = "ready")
          => /\ sandbox'.status = "ready"
             /\ sandboxWs' = sandboxWs]_vars

\* C21 as stated: sandbox events are broadcast in the order in which the object
\* received them: when the broadcast of an event is made after the provider call
\* its handler awaited, no client it is delivered to has already been sent the
\* sandbox_event of an event received later.
C21_EventOrderKept ==
    [][resp'.op \in {"spawn_return", "restore_return"}
          => \A k \in DOMAIN bcast' :
                bcast'[k].type = "sandbox_event"
                    => \A c \in bcast'[k].to : ~clients[c].sawLater]_vars

\* the types of the messages that are commands to the sandbox
SandboxCommands == {"prompt", "stop", "shutdown", "push"}

C26_OneRowPerUser ==
    \A i, j \in DOMAIN participants :
        participants[i].user_id = participants[j].user_id => i = j

\* C23: a prompt on a client socket that has no entry in this.clients: if the
\* socket has a row in ws_client_mapping, the prompt is enqueued for the user of
\* the mapped participant and the socket is entered in this.clients again as
\* that participant; if it has none, no message is enqueued and the socket is
\* closed with code 4002.
C23_RecoveredFromMapping ==
    [][\A ws \in DOMAIN clients :
          (resp'.op \in {"ws_prompt", "ws_prompt_rejected"} /\ resp'.client = ws
           /\ ~clients[ws].known)
          => IF clients[ws].mapped
             THEN /\ resp'.op = "ws_prompt"
                  /\ clients'[ws].state = "open"
                  /\ clients'[ws].known
                  /\ clients'[ws].participantId = clients[ws].mapping
                  /\ clients'[ws].userId = participants[clients[ws].mapping].user_id
                  /\ Len(messages') = Len(messages) + 1
                  /\ participants'[messages'[Len(messages')].author_id].user_id
                        = participants[clients[ws].mapping].user_id
             ELSE /\ resp'.op = "ws_prompt_rejected"
                  /\ messages' = messages
                  /\ clients'[ws].state = "closing"
                  /\ clients'[ws].code = 4002
                  /\ ~clients'[ws].known]_vars

\* a prompt was enqueued for a socket whose client info came from its mapping
\* row, the row of a participant other than the owner
C23_Witness ==
    /\ resp.op = "ws_prompt"
    /\ resp.recovered
    /\ clients[resp.client].known
    /\ clients[resp.client].participantId > 1
    /\ participants[messages[Len(messages)].author_id].user_id = clients[resp.client].userId

\* the requests whose push promise is pending
PendingPushes(ps) == {i \in DOMAIN ps : ps[i].at = "push"}

\* C27: every push made while a sandbox socket is open settles.  A push_complete
\* or push_error whose branch name, trimmed and lower-cased, is the branch of a
\* pending push makes that push succeed or fail; a push whose timer has run
\* (180 s after it was made) is not pending any more; and when a push settles,
\* the pending-push map holds no entry for its branch and its timer is not
\* armed.  This with any number of pushes pending for the same branch.
C27_PushSettles ==
    [][\A i \in DOMAIN pushes' :
          /\ (/\ i \in PendingPushes(pushes)
              /\ resp'.op = "push_event"
              /\ bcast'[1].arg.branchName.name # ""
              /\ normalizeBranchName(bcast'[1].arg.branchName) = pushes[i].branch)
             => pushes'[i].push = IF bcast'[1].arg.type = "push_complete"
                                  THEN "resolved" ELSE "rejected"
          /\ pushes'[i].timer = "fired" => i \notin PendingPushes(pushes')
          /\ (i \in PendingPushes(pushes) /\ i \notin PendingPushes(pushes'))
             => /\ pushes'[i].timer # "armed"
                /\ \A e \in pendingPushResolvers' : e.branch # pushes'[i].branch]_vars

\* the participant whose prompt is in processing, NULL if no prompt is
ProcessingAuthor ==
    IF HasProcessing(messages)
    THEN messages[Lowest(ProcessingSet(messages))].author_id
    ELSE NULL

\* the host token of a participant can be used: it is there, it decrypts, and
\* it does not expire within the buffer
UsableHostToken(participant, t) ==
    /\ participant.github_access_token_encrypted = Encrypted
    /\ \/ participant.github_token_expires_at = NULL
       \/ participant.github_token_expires_at > t + GITHUB_TOKEN_BUFFER_MS

\* nothing of a pull request came out of the step
NoPullRequest ==
    /\ artifacts' = artifacts
    /\ session' = session
    /\ \A k \in DOMAIN bcast' : bcast'[k].type # "artifact_created"
    /\ \A i \in DOMAIN pushes' :
          pushes'[i].at = "pr" => i \in DOMAIN pushes /\ pushes[i].at = "pr"

\* C28: create-pr answers 400 when no message is in processing and 401 when
\* the author of the processing message has no usable host token (none, one
\* that does not decrypt, or one that expires within 60 s); in those cases, and
\* when the push fails or times out, no pull request is created, no artifact
\* row is added, session.branch_name stays and no artifact_created is broadcast.
C28_CreatePRRefusals ==
    [][/\ resp'.op = "create_pr"
          => /\ ProcessingAuthor = NULL => resp'.code = 400 /\ NoPullRequest
             /\ (/\ ProcessingAuthor # NULL
                 /\ ~UsableHostToken(participants[ProcessingAuthor], now))
                => resp'.code = 401 /\ NoPullRequest
       /\ \A i \in PendingPushes(pushes) :
             pushes'[i].push \in {"rejected", "timeout"}
             => pushes'[i].at = "answered" /\ pushes'[i].code = 500 /\ NoPullRequest]_vars

\* the bytes of the values of a set of rows
RECURSIVE TotalBytes(_)
TotalBytes(rows) ==
    IF rows = {} THEN 0
    ELSE LET row == CHOOSE r \in rows : TRUE
         IN row.bytes + TotalBytes(rows \ {row})

\* C24: whatever setSecrets calls have succeeded, one after the other or with
\* their awaited steps interleaved, the repository has at most 50 keys, every
\* value is at most 16384 bytes and all values together are at most 65536 bytes.
C24_Quotas ==
    /\ Cardinality(repo_secrets) <= MAX_SECRETS_PER_REPO
    /\ \A row \in repo_secrets : row.bytes <= MAX_VALUE_SIZE
    /\ TotalBytes(repo_secrets) <= MAX_TOTAL_VALUE_SIZE

\* C25: a setSecrets call one of whose keys is reserved, in whatever case it is
\* written, fails with a validation error and stores none of its keys: the rows
\* stay as they are and the call does not go on; and no reserved key is ever
\* stored or about to be.
C25_ReservedRejected ==
    [][/\ (/\ setSecretsResult'.outcome \in {"started", "validation_error"}
           /\ \E key \in setSecretsResult'.keys : normalizeKey(key) \in RESERVED_KEYS)
          => /\ setSecretsResult'.outcome = "validation_error"
             /\ repo_secrets' = repo_secrets
             /\ setSecretsCalls' = setSecretsCalls
       /\ \A row \in repo_secrets' : row.key \notin RESERVED_KEYS
       /\ \A i \in DOMAIN setSecretsCalls' :
             setSecretsCalls'[i].normalized \cap RESERVED_KEYS = {}]_vars

\* a call with a reserved key written in lower case, along with a key that is
\* not reserved, was refused while the repository had keys and another call
\* was on its way
C25_Witness ==
    /\ setSecretsResult.outcome = "validation_error"
    /\ \E key \in setSecretsResult.keys : key.lower /\ normalizeKey(key) \in RESERVED_KEYS
    /\ \E key \in setSecretsResult.keys : normalizeKey(key) \notin RESERVED_KEYS
    /\ repo_secrets # {}
    /\ setSecretsCalls # <<>>

\* the provider create / restore call whose return the step is
ReturnedCall(i) ==
    /\ resp'.op \in {"spawn_return", "restore_return"}
    /\ i \in DOMAIN calls
    /\ calls' = RemoveAt(calls, i)

\* the sandbox started by call i has connected: the tracked socket is open and
\* presented the token of the call
Connected(i) ==
    /\ sandboxWs # NULL
    /\ sockets[sandboxWs].state = "open"
    /\ sockets[sandboxWs].presented = calls[i].tok

\* C31 as stated: if the sandbox of a create or restore call has connected and
\* the status is ready while the call is still awaited, the status is still
\* ready after the call has returned successfully; and an alarm that finds a
\* sandbox socket open, no client socket, no heartbeat timeout and the last
\* activity an inactivity timeout or more ago takes the inactivity timeout.
C31_ReadyKeptAtReturn ==
    [][/\ \A i \in DOMAIN calls :
             (ReturnedCall(i) /\ resp'.decision = "ok" /\ Connected(i)
                  /\ sandbox.status = "ready")
                 => sandbox'.status = "ready"
       /\ (/\ resp'.op = "alarm"
           /\ OpenSockets # {}
           /\ OpenClients(clients) = {}
           /\ ~(sandbox.last_heartbeat # NULL
                    /\ now - sandbox.last_heartbeat > HEARTBEAT_TIMEOUT_MS)
           /\ sandbox.last_activity # NULL
           /\ now - sandbox.last_activity >= INACTIVITY_TIMEOUT_MS)
          => resp'.decision = "timeout"]_vars

\* every sandbox socket accepted so far presented the token of a provider call
SpawnedSandboxes == \A w \in DOMAIN sockets : \E c \in issued : sockets[w].presented = c.tok

\* C32 as stated, of sandboxes a provider call started: when the sandbox socket
\* closes while a message is processing (no sandbox socket is open any more),
\* that message eventually leaves the processing state, and a pending message is
\* eventually dispatched once a sandbox socket is open again.
C32_QueueDoesNotStall ==
    \A i \in 1..MaxMsgs :
        /\ (/\ i \in DOMAIN messages /\ messages[i].status = "processing"
            /\ OpenSockets = {} /\ SpawnedSandboxes)
              ~> (i \in DOMAIN messages /\ messages[i].status # "processing")
        /\ (/\ i \in DOMAIN messages /\ messages[i].status = "pending"
            /\ OpenSockets # {} /\ SpawnedSandboxes)
              ~> (i \in DOMAIN messages /\ (messages[i].status # "pending" \/ OpenSockets = {}))

\* C33 as stated: no message is moved to processing and no prompt command is
\* sent to the sandbox while the sandbox status is stopped or stale.
C33_NoDispatchWhenTerminal ==
    [][(\/ resp'.dispatched # NULL
        \/ \E k \in DOMAIN toSandbox' : toSandbox'[k].type = "prompt")
          => sandbox'.status \notin {"stopped", "stale"}]_vars

\* C34 as stated: at any time at most one provider create or restore call is in
\* flight.
C34_OneCallInFlight == Len(calls) <= 1

\* C35 as stated: a typing, stop, prompt or presence message on a client socket
\* that has not completed a valid subscribe has no effect on the session: no
\* spawn is attempted, nothing is sent to the sandbox, no message is inserted and
\* no client's presence changes.
C35_UnsubscribedNoEffect ==
    [][(/\ resp'.op \in {"typing", "stop", "ws_prompt", "ws_prompt_rejected", "presence"}
        /\ ~clients[resp'.client].subscribed)
          => /\ resp'.decision = "none"
             /\ calls' = calls
             /\ sandbox' = sandbox
             /\ toSandbox' = <<>>
             /\ messages' = messages
             /\ \A i \in DOMAIN clients : clients'[i].status = clients[i].status]_vars

TimeoutSpawns == 2

\* the inactivity timeout with a sandbox that is lost and started again: the
\* sandbox is spawned, connects and works, falls idle and is stopped by the alarm, and
\* its socket closes and prompts arrive while the snapshot call is awaited
InTimeout == Within(AlarmSockets, TimeoutSpawns, AlarmTicks)

NextTimeout ==
    \/ Tick /\ InTimeout
    \/ HttpPromptBy(Owner) /\ InTimeout
    \/ SandboxUpgrade /\ InTimeout
    \/ SandboxSocketClosed /\ InTimeout
    \/ SandboxCompletes /\ InTimeout
    \/ SpawnReturn /\ InTimeout
    \/ SnapshotReturn /\ InTimeout
    \/ Alarm /\ InTimeout

SpecTimeout == Init /\ [][NextTimeout]_vars

\* the sandbox sockets a step sends shutdown to, and those it closes
ShutdownSent == {toSandbox'[k].ws : k \in {j \in DOMAIN toSandbox' :
                                               toSandbox'[j].type = "shutdown"}}
ClosedNow == {w \in DOMAIN sockets : sockets[w].state = "open" /\ sockets'[w].state # "open"}

\* C36 as stated, for a sandbox that has a provider object id (without one no
\* snapshot can be asked for): the alarm that takes the inactivity timeout
\* persists the status stopped and broadcasts it first, then has a snapshot call
\* with reason inactivity_timeout in flight, and sends no shutdown and closes no
\* sandbox socket before that call has returned; the step in which that call
\* returns sends shutdown to the sandbox sockets it closes and ends with the
\* status stopped.
C36_StopSnapshotThenClose ==
    [][/\ (/\ resp'.op = "alarm"
           /\ resp'.decision = "timeout"
           /\ sandbox.modal_object_id # NULL)
            => /\ sandbox'.status = "stopped"
               /\ bcast'[1] = [type |-> "sandbox_status", arg |-> "stopped",
                               to |-> Recipients(clients)]
               /\ \E i \in DOMAIN snaps' : snaps'[i].reason = "inactivity_timeout"
               /\ ShutdownSent = {}
               /\ ClosedNow = {}
       /\ (/\ resp'.op = "snapshot_return"
           /\ \E i \in DOMAIN snaps : snaps[i].cont = "close" /\ Len(snaps') < Len(snaps))
            => /\ sandbox'.status = "stopped"
               /\ ShutdownSent = ClosedNow]_vars

ConfigSockets == 1
ConfigSpawns == 1

\* snapshots with and without the Modal bindings: a sandbox is spawned, connects,
\* works and reports, its socket closes, and the Worker is deployed anew
InConfig == Within(ConfigSockets, ConfigSpawns, 0)

NextConfig ==
    \/ HttpPromptBy(Owner) /\ InConfig
    \/ SpawnReturn /\ InConfig
    \/ SandboxUpgrade /\ InConfig
    \/ SandboxSocketClosed /\ InConfig
    \/ SandboxCompletes /\ InConfig
    \/ SnapshotReturn /\ InConfig
    \/ Deploy /\ InConfig

SpecConfig == Init /\ [][NextConfig]_vars

\* the snapshots that write the status back: started in a non-terminal status,
\* for a reason other than the heartbeat timeout
Restoring(p) == ~p.isTerminalState /\ p.reason # "heartbeat_timeout"

\* C37 as stated: a step that starts such a snapshot leaves the status
\* snapshotting; the step in which its provider call returns, with or without
\* an image, sets the status back to the one the snapshot started in; and the
\* status is snapshotting only while such a call is awaited.
C37_StatusRestored ==
    [][/\ \A i \in DOMAIN snaps' :
             (i \notin DOMAIN snaps /\ Restoring(snaps'[i]))
                 => sandbox'.status = "snapshotting"
       /\ \A i \in DOMAIN snaps :
             (Returned(i) /\ Restoring(snaps[i]))
                 => sandbox'.status = snaps[i].previousStatus
       /\ sandbox'.status = "snapshotting"
             => \E i \in DOMAIN snaps' : Restoring(snaps'[i])]_vars

RestoreSockets == 1
RestoreMsgs == 1
RestoreClients == 1

\* restores that fail: a sandbox is spawned, connects, works and is
\* snapshotted, its socket closes, and typing signals ask for it again
InRestore ==
    /\ Within(RestoreSockets, MaxSpawns, 0)
    /\ Len(messages') <= RestoreMsgs
    /\ Len(clients') <= RestoreClients

NextRestore ==
    \/ HttpPromptBy(Owner) /\ InRestore
    \/ SpawnReturn /\ InRestore
    \/ SandboxUpgrade /\ InRestore
    \/ SandboxCompletes /\ InRestore
    \/ SnapshotReturn /\ InRestore
    \/ SandboxSocketClosed /\ InRestore
    \/ ClientConnect /\ InRestore
    \/ Typing /\ InRestore
    \/ RestoreReturn /\ InRestore

SpecRestore == Init /\ [][NextRestore]_vars

\* the restore calls that failed one after the other, the last threshold of
\* them within the window before now
BreakerShouldBeOpen ==
    /\ Len(failedRestores) >= CIRCUIT_BREAKER_THRESHOLD
    /\ now' - failedRestores[Len(failedRestores) - CIRCUIT_BREAKER_THRESHOLD + 1]
           < CIRCUIT_BREAKER_WINDOW_MS

\* C38 as stated: once threshold restore calls have failed one after the other
\* within the window, a spawn attempt makes no provider call.
C38_RestoreFailuresBounded ==
    [][BreakerShouldBeOpen => Len(calls') <= Len(calls)]_vars

\* SandboxLifecycleManager.spawnSandbox up to the action it takes: the circuit
\* breaker decision, then the spawn decision, as [action, reset, image].
managerSpawnSandbox(sandboxState, hasActiveWebSocket, isSpawningInMemory, nowMs) ==
    LET cbDecision ==
            evaluateCircuitBreaker([failureCount |-> sandboxState.spawn_failure_count,
                                    lastFailureTime |-> sandboxState.last_spawn_failure],
                                   DEFAULT_CIRCUIT_BREAKER_CONFIG, nowMs)
        spawnDecision ==
            evaluateSpawnDecision([status |-> sandboxState.status,
                                   createdAt |-> sandboxState.created_at,
                                   snapshotImageId |-> sandboxState.snapshot_image_id,
                                   hasActiveWebSocket |-> hasActiveWebSocket],
                                  DEFAULT_SPAWN_CONFIG, nowMs, isSpawningInMemory)
    IN IF ~cbDecision.shouldProceed
       THEN [action |-> "blocked", reset |-> cbDecision.shouldReset, image |-> NULL]
       ELSE [action |-> spawnDecision.action, reset |-> cbDecision.shouldReset,
             image |-> IF spawnDecision.action = "restore"
                       THEN spawnDecision.snapshotImageId ELSE NULL]

\* the sandbox rows, socket states and flags spawnSandbox is called with: every
\* status, times around every limit it compares with, with and without a
\* snapshot image, failure counts up to and beyond the threshold
SpawnRows ==
    {[InitSandbox EXCEPT !.status = st, !.created_at = cr, !.snapshot_image_id = img,
                         !.spawn_failure_count = f, !.last_spawn_failure = l] :
        st \in SandboxStatuses, img \in 0..MaxImages, f \in 0..MaxFailures,
        cr \in {0} \cup TimesBefore(EpochNow, {SPAWN_COOLDOWN_MS, READY_WAIT_MS}),
        l \in {0} \cup TimesBefore(EpochNow, {CIRCUIT_BREAKER_WINDOW_MS})}

InitChoice ==
    /\ now = EpochNow
    /\ ticks = 0
    /\ sandbox \in SpawnRows
    /\ messages = <<>>
    /\ sockets \in {<<>>, <<[state |-> "open", sid |-> NULL, presented |-> NULL]>>}
    /\ clients = <<>>
    /\ sandboxWs \in {NULL} \cup DOMAIN sockets
    /\ isSpawningSandbox \in BOOLEAN
    /\ alarmAt = NULL
    /\ calls = <<>>
    /\ snaps = <<>>
    /\ nextTok = 1
    /\ bcast = <<>>
    /\ toSandbox = <<>>
    /\ resp = NoResp
    /\ lastStatus = "none"
    /\ issued = {}
    /\ prompted = {}
    /\ env = [MODAL_API_SECRET |-> TRUE, MODAL_WORKSPACE |-> TRUE]
    /\ failedRestores = <<>>
    /\ participants = <<OwnerParticipant>>
    /\ session = [branch_name |-> NULL]
    /\ artifacts = <<>>
    /\ pushes = <<>>
    /\ pendingPushResolvers = {}
    /\ repo_secrets = {}
    /\ setSecretsCalls = <<>>
    /\ setSecretsResult = [outcome |-> "none", keys |-> {}]
    /\ d1Queries = <<>>
    /\ d1Pending = <<>>
    /\ d1Done = [op |-> "none"]
    /\ decision = NoDecision

\* SessionDO.spawnSandbox, called once in the state drawn
SpawnSandboxCall ==
    /\ resp.op = "none"
    /\ \E ord \in Orders(1) : Commit(spawnSandbox(Op(Cur, "spawn_sandbox"), ord))

NextChoice == SpawnSandboxCall

SpecChoice == InitChoice /\ [][NextChoice]_vars

\* C39: whatever the sandbox row, the sandbox sockets, the in-memory flag and
\* the time, the action SessionDO.spawnSandbox takes (blocked, skip, wait,
\* restore with the stored image, or spawn, and whether the failure count was
\* reset) is the one SandboxLifecycleManager.spawnSandbox takes.
C39_SameChoice ==
    [][resp'.op = "spawn_sandbox"
          => [action |-> resp'.decision,
              reset |-> sandbox.spawn_failure_count > 0 /\ sandbox'.spawn_failure_count = 0,
              image |-> IF Len(calls') > 0 /\ calls'[Len(calls')].kind = "restore"
                        THEN calls'[Len(calls')].image ELSE NULL]
             = managerSpawnSandbox(sandbox, OpenSockets # {}, isSpawningSandbox, now)]_vars

\* C39 witness: a call that was made with a failure count whose window had
\* passed, the flag set and a snapshot image stored has reset the count and
\* started a restore with that image.
C39_Witness ==
    /\ resp.op = "spawn_sandbox"
    /\ resp.decision = "restore"
    /\ sandbox.spawn_failure_count = 0
    /\ sandbox.last_spawn_failure # NULL
    /\ Len(calls) = 1
    /\ calls[1].image = sandbox.snapshot_image_id

\* ------------------------------------------- the instrumented database
\* instrumented-d1.ts: instrumentD1 and instrumentStatement around a real
\* D1Database, recording into the d1Queries of one RequestMetrics.
MaxD1Records == 2   \* query records of a request
MaxD1Pending == 1   \* calls awaiting the real database at once
MaxBatch == 2       \* statements of a batch
MaxElapsed == 0     \* milliseconds a call takes on the wall clock
MaxMeta == 1        \* the duration and the row counts a result reports

\* a field the result does not have
Undefined == 0 - 1

\* a D1PreparedStatement of the real database
Statements == [query : {"SELECT"}, bound : BOOLEAN]

\* instrumentStatement: the wrapper keeps the original under ORIGINAL_STMT
instrumentStatement(stmt) == [ORIGINAL_STMT |-> stmt]

\* unwrapStatement: stmt[ORIGINAL_STMT] ?? stmt
unwrapStatement(stmt) ==
    IF "ORIGINAL_STMT" \in DOMAIN stmt THEN stmt.ORIGINAL_STMT ELSE stmt

\* the statements callers hold: from prepare and bind of the instrumented
\* database, and (for batch) also from the real database
Instrumented == {instrumentStatement(stmt) : stmt \in Statements}

BatchInputs ==
    UNION {[1..n -> Instrumented \cup Statements] : n \in 0..MaxBatch}

\* result.meta: a D1Meta with its duration and row counts, or no meta
NoMeta == [duration |-> Undefined, rows_read |-> Undefined, rows_written |-> Undefined]

Metas ==
    {NoMeta} \cup [duration : {MaxMeta}, rows_read : 0..MaxMeta, rows_written : {MaxMeta}]

\* x ?? 0
OrZero(x) == IF x = Undefined THEN 0 ELSE x

\* the loop of batch over its results, for one field of meta
RECURSIVE SumMeta(_, _)
SumMeta(results, field) ==
    IF results = <<>> THEN 0
    ELSE OrZero(Head(results)[field]) + SumMeta(Tail(results), field)

\* (mutation) the record of a batch holds the meta of its first result only
QueryRecord_FirstResult(op, elapsed, results) ==
    IF op \in {"first", "raw"} \/ results = <<>>
    THEN [query_ms |-> elapsed, d1_server_ms |-> Undefined, rows_read |-> Undefined,
          rows_written |-> Undefined]
    ELSE [query_ms |-> elapsed, d1_server_ms |-> results[1].duration,
          rows_read |-> results[1].rows_read, rows_written |-> results[1].rows_written]

\* the record a call pushes once the real database has answered
QueryRecord(op, elapsed, results) ==
    IF op \in {"first", "raw"}
    THEN [query_ms |-> elapsed, d1_server_ms |-> Undefined, rows_read |-> Undefined,
          rows_written |-> Undefined]
    ELSE IF op \in {"run", "all"}
    THEN [query_ms |-> elapsed, d1_server_ms |-> results[1].duration,
          rows_read |-> results[1].rows_read, rows_written |-> results[1].rows_written]
    ELSE [query_ms |-> elapsed, d1_server_ms |-> SumMeta(results, "duration"),
          rows_read |-> SumMeta(results, "rows_read"),
          rows_written |-> SumMeta(results, "rows_written")]

\* a call leaves for the real database: given is what the caller passed,
\* received what the real database gets
D1Call(op, given, received) ==
    /\ Len(d1Pending) < MaxD1Pending
    /\ d1Pending' = Append(d1Pending, [op |-> op, given |-> given, received |-> received])
    /\ UNCHANGED <<d1Queries, d1Done, hubVars, storeVars, decision>>

\* first, run, all and raw of an instrumented statement
StatementCall ==
    \E op \in {"first", "run", "all", "raw"}, stmt \in Instrumented :
        D1Call(op, <<stmt>>, <<stmt.ORIGINAL_STMT>>)

\* batch of the instrumented database
Batch ==
    \E statements \in BatchInputs :
        D1Call("batch", statements,
               [i \in DOMAIN statements |-> unwrapStatement(statements[i])])

\* exec and dump of the instrumented database
ExecOrDump ==
    \E op \in {"exec", "dump"} : D1Call(op, <<>>, <<>>)

\* the real database answers a call or throws; results holds the meta of each
\* D1Result it returns
D1Return ==
    \E i \in DOMAIN d1Pending, completed \in BOOLEAN, elapsed \in 0..MaxElapsed :
    \E results \in [1..(IF d1Pending[i].op = "batch" THEN Len(d1Pending[i].received)
                        ELSE IF d1Pending[i].op \in {"run", "all"} THEN 1 ELSE 0) -> Metas] :
        /\ d1Pending' = RemoveAt(d1Pending, i)
        /\ d1Done' = [op |-> d1Pending[i].op, given |-> d1Pending[i].given,
                      received |-> d1Pending[i].received, completed |-> completed,
                      results |-> results]
        /\ d1Queries' = IF completed /\ d1Pending[i].op \notin {"exec", "dump"}
                        THEN Append(d1Queries, QueryRecord(d1Pending[i].op, elapsed, results))
                        ELSE d1Queries
        /\ Len(d1Queries') <= MaxD1Records
        /\ UNCHANGED <<hubVars, storeVars, decision>>

NextD1 ==
    \/ StatementCall
    \/ Batch
    \/ ExecOrDump
    \/ D1Return

SpecD1 == Init /\ [][NextD1]_vars

\* the sum of one field over the results, taken from the last result backwards
RECURSIVE SumFromEnd(_, _, _)
SumFromEnd(results, field, n) ==
    IF n = 0 THEN 0
    ELSE SumFromEnd(results, field, n - 1)
             + (IF results[n][field] = Undefined THEN 0 ELSE results[n][field])

\* the step is the end of a call of one of ops that completed
Completed(ops) ==
    /\ Len(d1Pending') < Len(d1Pending)
    /\ d1Done'.op \in ops
    /\ d1Done'.completed

\* C40: a first, run, all or raw call that completes appends exactly one record;
\* a batch that completes appends exactly one record, whatever the number of its
\* statements, whose server duration and rows read and written are the sums over
\* its results; the real database was handed the statements without their
\* wrappers; exec and dump, and the start of a call, append nothing.
C40_OneRecordPerCall ==
    [][/\ Completed({"first", "run", "all", "raw", "batch"})
            => /\ Len(d1Queries') = Len(d1Queries) + 1
               /\ SubSeq(d1Queries', 1, Len(d1Queries)) = d1Queries
       /\ Completed({"batch"})
            => LET record == d1Queries'[Len(d1Queries')]
                   results == d1Done'.results
               IN /\ record.d1_server_ms = SumFromEnd(results, "duration", Len(results))
                  /\ record.rows_read = SumFromEnd(results, "rows_read", Len(results))
                  /\ record.rows_written = SumFromEnd(results, "rows_written", Len(results))
                  /\ Len(d1Done'.received) = Len(d1Done'.given)
                  /\ \A i \in DOMAIN d1Done'.received :
                        /\ d1Done'.received[i] \in Statements
                        /\ d1Done'.given[i] \in {d1Done'.received[i],
                                                 instrumentStatement(d1Done'.received[i])}
       /\ (Completed({"exec", "dump"}) \/ Len(d1Pending') > Len(d1Pending))
            => d1Queries' = d1Queries]_vars

\* C40 witness: after another record, a batch of two instrumented statements has
\* completed with results that report durations and rows, and its one record
\* holds their sums.
C40_Witness ==
    /\ d1Done.op = "batch"
    /\ d1Done.completed
    /\ Len(d1Done.given) = MaxBatch
    /\ \A i \in DOMAIN d1Done.given : d1Done.given[i] \in Instrumented
    /\ \A i \in DOMAIN d1Done.results : d1Done.results[i].duration = MaxMeta
    /\ Len(d1Queries) = 2
    /\ d1Queries[2].d1_server_ms = MaxBatch * MaxMeta

=========================================================================
